---- MODULE Spec2Model ----
(***************************************************************************)
(* State-machine model of poly_pkt_fwd.c, the LoRa packet forwarder:       *)
(* the main statistics loop, thread_up, one thread_down per live server,   *)
(* thread_gps and thread_valid, sharing seven mutexes, the measurement     *)
(* counters, the status-report flag, the time reference flags and the      *)
(* beacon flag.  Every thread is a program counter plus its locals; one    *)
(* action is the code between two suspension points (a mutex acquisition,  *)
(* a blocking HAL or socket call, a sleep); a critical section that makes   *)
(* no blocking call is one action, taken when its mutex is free.           *)
(***************************************************************************)
EXTENDS Integers, Sequences, FiniteSets, TLC

(* ------------------------------------------------------------------ *)
(* Program constants                                                   *)
(* ------------------------------------------------------------------ *)
MAX_SERVERS == 4
DEFAULT_KEEPALIVE == 5
GPS_REF_MAX_AGE == 30
BEACON_POLL_MS == 50
PROTOCOL_VERSION == 1
XERR_INIT_AVG == 128
PKT_PUSH_DATA == 0
PKT_PUSH_ACK == 1
PKT_PULL_DATA == 2
PKT_PULL_RESP == 3
PKT_PULL_ACK == 4
NB_PKT_MAX == 8
LGW_HAL_ERROR == -1
TRIG_RESET_SENTINEL == 2113929216  \* 0x7E000000

STAT_CRC_OK == "STAT_CRC_OK"
STAT_CRC_BAD == "STAT_CRC_BAD"
STAT_NO_CRC == "STAT_NO_CRC"
STAT_UNDEFINED == "STAT_UNDEFINED"
RxStatuses == {STAT_CRC_OK, STAT_CRC_BAD, STAT_NO_CRC, STAT_UNDEFINED}

(* ------------------------------------------------------------------ *)
(* Bounds of the model                                                 *)
(* ------------------------------------------------------------------ *)
MaxTokByte == 1      \* token bytes range over 0..MaxTokByte
MaxRecv == 2         \* datagrams (or timeouts) one PULL session receives
MaxPulls == 2        \* PULL_DATA requests one thread_down sends (SpecDown)
MaxStats == 2        \* iterations of the statistics loop
MaxFetch == 2        \* iterations of thread_up (SpecAck)
MaxRounds == 1       \* iterations of thread_up (SpecFilter)
MaxLoop == 1         \* iterations of each thread's loop (SpecRadio)
MaxPkt == 2          \* packets one fetch returns (at most NB_PKT_MAX)
MaxThreshold == 2    \* largest autoquit_threshold explored
MaxSync == 2         \* iterations of thread_gps and thread_valid, clock ticks
MaxAge == 35         \* seconds the clock runs in SpecAge (over GPS_REF_MAX_AGE)
MaxPolls == 4        \* polls of thread_valid and clock ticks (SpecXerr)
BootTime == 100      \* the clock when the threads start

TokBytes == 0..MaxTokByte
Mutexes == {"mx_concent", "mx_timeref", "mx_xcorr", "mx_meas_up",
            "mx_meas_dw", "mx_meas_gps", "mx_stat_rep"}
NoOwner == "none"
DownNames == <<"down0", "down1", "down2", "down3">>
DownName(ic) == DownNames[ic + 1]

VARIABLES
    proc,            \* "running", "exit_success" or "exit_failure"
    conf,            \* configuration, fixed after start-up
    fuel,            \* loop iterations each thread may still start (model bound)
    exit_sig, quit_sig,
    mx,              \* owner of each mutex
    meas_up,         \* upstream counters (guarded by mx_meas_up)
    meas_dw,         \* downstream counters (guarded by mx_meas_dw)
    report_ready,    \* status report flag (guarded by mx_stat_rep, read dirty)
    status_report,   \* the rendered report (guarded by mx_stat_rep)
    gps_ref_valid, xtal_correct_ok, beacon_next_pps,
    time_reference_gps, \* guarded by mx_timeref
    xtal_correct,    \* a rational <<numerator, denominator>>, guarded by mx_xcorr
    gps_coord_valid, \* guarded by mx_meas_gps
    sock_state,      \* per server: "none", "connected" or "shutdown"
    now,             \* the system clock, in seconds
    pc_main, cp_up, cp_dw, coord_ok,
    pc_up, up,
    pc_down, dn,
    pc_gps, gps,
    pc_valid, valid,
    hist             \* history variables used to state the properties

vars == <<proc, conf, fuel, exit_sig, quit_sig, mx, meas_up, meas_dw,
          report_ready, status_report, gps_ref_valid, xtal_correct_ok,
          beacon_next_pps, time_reference_gps, xtal_correct,
          gps_coord_valid, pc_main, cp_up, cp_dw, coord_ok,
          pc_up, up, pc_down, dn, pc_gps, gps, pc_valid, valid, hist,
          sock_state, now>>

sigVars == <<exit_sig, quit_sig>>
measVars == <<meas_up, meas_dw>>
repVars == <<report_ready, status_report>>
gpsShared == <<gps_ref_valid, xtal_correct_ok, beacon_next_pps,
               time_reference_gps, xtal_correct, gps_coord_valid>>
mainVars == <<pc_main, cp_up, cp_dw, coord_ok>>
upVars == <<pc_up, up>>
downVars == <<pc_down, dn>>
gpsVars == <<pc_gps, gps>>
validVars == <<pc_valid, valid>>
envVars == <<sock_state, now>>

Servers == 0..(conf.serv_count - 1)
LiveServers == {ic \in Servers : conf.serv_live[ic]}
Running == proc = "running"

(* The counters are uint32_t.  TLC's integers are 32-bit signed, so 2^32  *)
(* cannot be written; every counter of the model stays far below it and  *)
(* the additions are exact.                                              *)
Add32(x, n) == x + n

(* ------------------------------------------------------------------ *)
(* Mutexes: pthread_mutex_lock blocks until the mutex is free          *)
(* ------------------------------------------------------------------ *)
AcquireNoWait(t, m) == mx' = [mx EXCEPT ![m] = t]
Acquire(t, m) == mx[m] = NoOwner /\ mx' = [mx EXCEPT ![m] = t]
Release(t, m) == mx' = [mx EXCEPT ![m] = NoOwner]
Held(t) == {m \in Mutexes : mx[m] = t}
(* pthread_mutex_lock ... pthread_mutex_unlock around code that makes no *)
(* blocking call: the section runs as one action, once the mutex is free *)
CritSec(t, m) == mx[m] = NoOwner

ZeroUp == [rx_rcv |-> 0, rx_ok |-> 0, rx_bad |-> 0, rx_nocrc |-> 0,
           up_pkt_fwd |-> 0, up_network_byte |-> 0, up_payload_byte |-> 0,
           up_dgram_sent |-> 0, up_ack_rcv |-> 0]
ZeroDw == [dw_pull_sent |-> 0, dw_ack_rcv |-> 0, dw_dgram_rcv |-> 0,
           dw_network_byte |-> 0, dw_payload_byte |-> 0,
           nb_tx_ok |-> 0, nb_tx_fail |-> 0]

(* history: the increments a worker thread applied to a counter group *)
Applied(tot, old, new) == [f \in DOMAIN tot |-> tot[f] + (new[f] - old[f])]

(* ------------------------------------------------------------------ *)
(* Signals                                                             *)
(* ------------------------------------------------------------------ *)
sig_handler(sigio) ==
    /\ Running
    /\ IF sigio = "SIGQUIT"
         THEN quit_sig' = TRUE /\ UNCHANGED exit_sig
         ELSE exit_sig' = TRUE /\ UNCHANGED quit_sig
    /\ UNCHANGED <<proc, conf, fuel, mx, measVars, repVars, gpsShared,
                   mainVars, upVars, downVars, gpsVars, validVars, hist,
                   envVars>>

(* ------------------------------------------------------------------ *)
(* main: the statistics loop (lines 1306-1442) and the shutdown        *)
(* sequence (lines 1444-1475)                                          *)
(* ------------------------------------------------------------------ *)
MainLoopHead ==
    /\ Running /\ pc_main = "loop"
    /\ IF exit_sig \/ quit_sig
         THEN pc_main' = "join_up" /\ UNCHANGED fuel
         ELSE /\ fuel.main > 0
              /\ fuel' = [fuel EXCEPT !.main = @ - 1]
              /\ pc_main' = "up_snap"      \* wait_ms(1000 * stat_interval)
    /\ UNCHANGED <<proc, conf, sigVars, mx, measVars, repVars, gpsShared,
                   cp_up, cp_dw, coord_ok, upVars, downVars, gpsVars,
                   validVars, hist, envVars>>

AfterSnap == IF conf.statusstream_enabled THEN "rep" ELSE "trig_lock"
(* the GPS lines of the display are printed when gps_enabled (1403) *)
AfterCopy == IF conf.gps_enabled THEN "disp_flag" ELSE AfterSnap

(* copy and reset of the upstream counters under mx_meas_up (1315-1334) *)
MainSnapUp ==
    /\ Running /\ pc_main = "up_snap"
    /\ CritSec("main", "mx_meas_up")
    /\ cp_up' = meas_up
    /\ meas_up' = ZeroUp
    /\ pc_main' = "dw_snap"
    /\ hist' = [hist EXCEPT !.sum_up =
                  [f \in DOMAIN ZeroUp |-> hist.sum_up[f] + meas_up[f]]]
    /\ UNCHANGED <<proc, conf, fuel, sigVars, mx, meas_dw, repVars,
                   gpsShared, cp_dw, coord_ok, upVars, downVars, gpsVars,
                   validVars, envVars>>

MainSnapDwKeepTx ==
    /\ Running /\ pc_main = "dw_snap"
    /\ CritSec("main", "mx_meas_dw")
    /\ cp_dw' = meas_dw
    /\ meas_dw' = [ZeroDw EXCEPT !.nb_tx_ok = meas_dw.nb_tx_ok]
    /\ pc_main' = IF conf.gps_active THEN "gps_copy" ELSE AfterCopy
    /\ hist' = [hist EXCEPT !.sum_dw =
                  [f \in DOMAIN ZeroDw |-> hist.sum_dw[f] + meas_dw[f]]]
    /\ UNCHANGED <<proc, conf, fuel, sigVars, mx, meas_up, repVars,
                   gpsShared, cp_up, coord_ok, upVars, downVars, gpsVars,
                   validVars, envVars>>

(* copy and reset of the downstream counters under mx_meas_dw (1351-1366) *)
MainSnapDw ==
    /\ Running /\ pc_main = "dw_snap"
    /\ CritSec("main", "mx_meas_dw")
    /\ cp_dw' = meas_dw
    /\ meas_dw' = ZeroDw
    /\ pc_main' = IF conf.gps_active THEN "gps_copy" ELSE AfterCopy
    /\ hist' = [hist EXCEPT !.sum_dw =
                  [f \in DOMAIN ZeroDw |-> hist.sum_dw[f] + meas_dw[f]]]
    /\ UNCHANGED <<proc, conf, fuel, sigVars, mx, meas_up, repVars,
                   gpsShared, cp_up, coord_ok, upVars, downVars, gpsVars,
                   validVars, envVars>>

MainCopyGps ==
    /\ Running /\ pc_main = "gps_copy"
    /\ CritSec("main", "mx_meas_gps")
    /\ coord_ok' = gps_coord_valid
    /\ pc_main' = AfterCopy
    /\ UNCHANGED <<proc, conf, fuel, sigVars, mx, measVars, repVars,
                   gpsShared, cp_up, cp_dw, upVars, downVars, gpsVars,
                   validVars, hist, envVars>>

(* the display tests gps_ref_valid (1405) with no mutex held ("no need  *)
(* for mutex, display is not critical")                                  *)
MainDispFlag ==
    /\ Running /\ pc_main = "disp_flag"
    /\ hist' = [hist EXCEPT !.disp.valid = gps_ref_valid,
                            !.disp.flag_ref = time_reference_gps]
    /\ pc_main' = "disp_age"
    /\ UNCHANGED <<proc, conf, fuel, sigVars, mx, measVars, repVars,
                   gpsShared, cp_up, cp_dw, coord_ok, upVars, downVars,
                   gpsVars, validVars, envVars>>

(* then prints the age of time_reference_gps.systime (1406, 1408), still *)
(* with no mutex held                                                    *)
MainDispAge ==
    /\ Running /\ pc_main = "disp_age"
    /\ hist' = [hist EXCEPT !.disp.age = now - time_reference_gps.systime,
                            !.disp.age_ref = time_reference_gps,
                            !.disp.shown = TRUE]
    /\ pc_main' = AfterSnap
    /\ UNCHANGED <<proc, conf, fuel, sigVars, mx, measVars, repVars,
                   gpsShared, cp_up, cp_dw, coord_ok, upVars, downVars,
                   gpsVars, validVars, envVars>>

MainDisplay == MainDispFlag \/ MainDispAge

(* snprintf of the "stat" object from the copies taken above *)
RenderReport(ok) ==
    [with_coord |-> conf.gps_enabled /\ ok,
     rxnb |-> cp_up.rx_rcv, rxok |-> cp_up.rx_ok, rxfw |-> cp_up.up_pkt_fwd,
     ackr |-> <<cp_up.up_ack_rcv, cp_up.up_dgram_sent>>,
     dwnb |-> cp_dw.dw_dgram_rcv, txnb |-> cp_dw.nb_tx_ok]

(* the fake coordinates (1383), then the JSON report under mx_stat_rep   *)
(* (1424-1431)                                                           *)
MainRender ==
    /\ Running /\ pc_main = "rep"
    /\ CritSec("main", "mx_stat_rep")
    /\ coord_ok' = IF conf.gps_fake_enable THEN TRUE ELSE coord_ok
    /\ status_report' = RenderReport(coord_ok')
    /\ report_ready' = TRUE
    /\ pc_main' = "trig_lock"
    /\ hist' = [hist EXCEPT !.reports = @ + 1]
    /\ UNCHANGED <<proc, conf, fuel, sigVars, mx, measVars, gpsShared,
                   cp_up, cp_dw, upVars, downVars, gpsVars, validVars,
                   envVars>>

MainLockTrig ==
    /\ Running /\ pc_main = "trig_lock"
    /\ Acquire("main", "mx_concent")
    /\ pc_main' = "trig"
    /\ UNCHANGED <<proc, conf, fuel, sigVars, measVars, repVars, gpsShared,
                   cp_up, cp_dw, coord_ok, upVars, downVars, gpsVars,
                   validVars, hist, envVars>>

(* lgw_get_trigcnt returns; the sentinel value ends the process *)
MainTrig ==
    /\ Running /\ pc_main = "trig"
    /\ \E ok \in BOOLEAN, trig_cnt_us \in {0, TRIG_RESET_SENTINEL} :
         IF ok /\ trig_cnt_us = TRIG_RESET_SENTINEL
           THEN proc' = "exit_failure" /\ pc_main' = "aborted"
           ELSE proc' = proc /\ pc_main' = "loop"
    /\ Release("main", "mx_concent")
    /\ UNCHANGED <<conf, fuel, sigVars, measVars, repVars, gpsShared, cp_up,
                   cp_dw, coord_ok, upVars, downVars, gpsVars, validVars,
                   hist, envVars>>

MainJoinUp ==
    /\ Running /\ pc_main = "join_up"
    /\ conf.upstream_enabled => pc_up = "done"
    /\ pc_main' = "join_down"
    /\ UNCHANGED <<proc, conf, fuel, sigVars, mx, measVars, repVars,
                   gpsShared, cp_up, cp_dw, coord_ok, upVars, downVars,
                   gpsVars, validVars, hist, envVars>>

(* the joins of the downstream threads, then ghost_stop, monitor_stop    *)
(* and pthread_cancel of thread_gps and thread_valid (not joined)        *)
MainJoinDown ==
    /\ Running /\ pc_main = "join_down"
    /\ conf.downstream_enabled => \A ic \in LiveServers : pc_down[ic] = "done"
    /\ gps' = [gps EXCEPT !.cancel_req = @ \/ conf.gps_active]
    /\ valid' = [valid EXCEPT !.cancel_req = @ \/ conf.gps_active]
    /\ pc_main' = "shutdown"
    /\ UNCHANGED <<proc, conf, fuel, sigVars, mx, measVars, repVars,
                   gpsShared, cp_up, cp_dw, coord_ok, upVars, downVars,
                   pc_gps, pc_valid, hist, envVars>>

MainShutdownAlways ==
    /\ Running /\ pc_main = "shutdown"
    /\ sock_state' = [ic \in DOMAIN sock_state |->
                        IF conf.serv_live[ic] THEN "shutdown"
                                              ELSE sock_state[ic]]
    /\ pc_main' = IF conf.radiostream_enabled THEN "lgw_stop" ELSE "exit"
    /\ UNCHANGED <<proc, conf, fuel, sigVars, mx, measVars, repVars,
                   gpsShared, cp_up, cp_dw, coord_ok, upVars, downVars,
                   gpsVars, validVars, hist, now>>

(* if (exit_sig): shutdown of the sockets of the live servers (1459-    *)
(* 1462), then lgw_stop if the radio stream is enabled (1464)            *)
MainShutdown ==
    /\ Running /\ pc_main = "shutdown"
    /\ IF exit_sig
         THEN /\ sock_state' = [ic \in DOMAIN sock_state |->
                                  IF conf.serv_live[ic] THEN "shutdown"
                                                        ELSE sock_state[ic]]
              /\ pc_main' = IF conf.radiostream_enabled THEN "lgw_stop"
                                                        ELSE "exit"
         ELSE pc_main' = "exit" /\ UNCHANGED sock_state
    /\ UNCHANGED <<proc, conf, fuel, sigVars, mx, measVars, repVars,
                   gpsShared, cp_up, cp_dw, coord_ok, upVars, downVars,
                   gpsVars, validVars, hist, now>>

(* lgw_stop is called without mx_concent (line 1465) *)
MainLgwStop ==
    /\ Running /\ pc_main = "lgw_stop"
    /\ pc_main' = "exit"
    /\ UNCHANGED <<proc, conf, fuel, sigVars, mx, measVars, repVars,
                   gpsShared, cp_up, cp_dw, coord_ok, upVars, downVars,
                   gpsVars, validVars, hist, envVars>>

MainExit ==
    /\ Running /\ pc_main = "exit"
    /\ proc' = "exit_success"
    /\ UNCHANGED <<conf, fuel, sigVars, mx, measVars, repVars, gpsShared,
                   mainVars, upVars, downVars, gpsVars, validVars, hist,
                   envVars>>

(* ------------------------------------------------------------------ *)
(* main: the loop over the servers (lines 1142-1224) and the start of   *)
(* the threads (1234-1264)                                              *)
(* ------------------------------------------------------------------ *)
(* the server the loop is at: the first one not yet visited *)
SetupIc == CHOOSE ic \in Servers :
             /\ sock_state[ic] = "unset"
             /\ \A o \in Servers : sock_state[o] = "unset" => ic <= o

(* the calls of one iteration, in order: 1 getaddrinfo (up), 2 socket   *)
(* (up), 3 connect (up), 4 getaddrinfo (down), 5 socket (down),          *)
(* 6 connect (down); the sockets of the server after the first failing   *)
(* call, 0 if none fails                                                 *)
SetupCalls == 1..6
SocketsAfter(fail_at) ==
    CASE fail_at \in {1, 2} -> "none"
      [] fail_at = 3 -> "up_open"
      [] fail_at \in {4, 5} -> "up_connected"
      [] fail_at = 6 -> "down_open"
      [] OTHER -> "connected"

MainSetupFatal ==
    /\ Running /\ pc_main = "setup"
    /\ \E ic \in Servers : sock_state[ic] = "unset"
    /\ \E fail_at \in conf.setup_fail :
         /\ sock_state' = [sock_state EXCEPT ![SetupIc] =
                             SocketsAfter(fail_at)]
         /\ conf' = [conf EXCEPT !.serv_live[SetupIc] = (fail_at = 0)]
         /\ proc' = IF fail_at = 0 THEN proc ELSE "exit_failure"
         /\ pc_main' = IF fail_at = 0 THEN pc_main ELSE "aborted"
    /\ UNCHANGED <<fuel, sigVars, mx, measVars, repVars, gpsShared,
                   cp_up, cp_dw, coord_ok, upVars, downVars, gpsVars,
                   validVars, hist, now>>

MainSetupLiveOnUp ==
    /\ Running /\ pc_main = "setup"
    /\ \E ic \in Servers : sock_state[ic] = "unset"
    /\ \E fail_at \in conf.setup_fail :
         /\ sock_state' = [sock_state EXCEPT ![SetupIc] =
                             SocketsAfter(fail_at)]
         /\ conf' = [conf EXCEPT !.serv_live[SetupIc] =
                                   (fail_at = 0 \/ fail_at > 3)]
    /\ UNCHANGED <<proc, fuel, sigVars, mx, measVars, repVars, gpsShared,
                   mainVars, upVars, downVars, gpsVars, validVars, hist,
                   now>>

(* one iteration of the loop over the servers: every failure ends it by *)
(* continue, and serv_live[ic] is set at its end (1222)                  *)
MainSetup ==
    /\ Running /\ pc_main = "setup"
    /\ \E ic \in Servers : sock_state[ic] = "unset"
    /\ \E fail_at \in conf.setup_fail :
         /\ sock_state' = [sock_state EXCEPT ![SetupIc] =
                             SocketsAfter(fail_at)]
         /\ conf' = [conf EXCEPT !.serv_live[SetupIc] = (fail_at = 0)]
    /\ UNCHANGED <<proc, fuel, sigVars, mx, measVars, repVars, gpsShared,
                   mainVars, upVars, downVars, gpsVars, validVars, hist,
                   now>>

(* after the last server: lgw_start (1234-1243), then pthread_create    *)
(* for thread_up, one thread_down per live server, thread_gps and        *)
(* thread_valid (1248-1278); a failure of any of them ends the process   *)
MainStart ==
    /\ Running /\ pc_main = "setup"
    /\ \A ic \in Servers : sock_state[ic] # "unset"
    /\ \E ok \in BOOLEAN :
         IF ok
           THEN /\ pc_main' = "loop"
                /\ pc_up' = IF conf.upstream_enabled THEN "start" ELSE "off"
                /\ pc_down' = [ic \in Servers |->
                                 IF conf.downstream_enabled
                                    /\ conf.serv_live[ic]
                                   THEN "start" ELSE "off"]
                /\ pc_gps' = IF conf.gps_active THEN "head" ELSE "off"
                /\ pc_valid' = IF conf.gps_active THEN "head" ELSE "off"
                /\ UNCHANGED proc
           ELSE /\ proc' = "exit_failure" /\ pc_main' = "aborted"
                /\ UNCHANGED <<pc_up, pc_down, pc_gps, pc_valid>>
    /\ UNCHANGED <<conf, fuel, sigVars, mx, measVars, repVars, gpsShared,
                   cp_up, cp_dw, coord_ok, up, dn, gps, valid, hist,
                   envVars>>

(* thread_up sets SO_RCVTIMEO on the upstream socket of every live      *)
(* server (1552-1558)                                                    *)
UpStart ==
    /\ Running /\ pc_up = "start"
    /\ \E ok \in BOOLEAN :
         IF ok /\ \A ic \in LiveServers : sock_state[ic] = "connected"
           THEN pc_up' = "head" /\ UNCHANGED proc
           ELSE pc_up' = "aborted" /\ proc' = "exit_failure"
    /\ UNCHANGED <<conf, fuel, sigVars, mx, measVars, repVars, gpsShared,
                   mainVars, up, downVars, gpsVars, validVars, hist,
                   envVars>>

MainStats ==
    \/ MainLoopHead \/ MainSnapUp \/ MainSnapDw \/ MainLockTrig \/ MainTrig

MainEnd ==
    \/ MainJoinUp \/ MainJoinDown \/ MainShutdown \/ MainLgwStop \/ MainExit

(* ------------------------------------------------------------------ *)
(* thread_down: datagrams and the PULL_RESP parser (lines 2195-2498)    *)
(* ------------------------------------------------------------------ *)
Has(t, f) == f \in DOMAIN t
NoBody == [json |-> "none"]
NoMsg == [len |-> -1, ver |-> 0, typ |-> 0, tok_h |-> 0, tok_l |-> 0,
          body |-> NoBody]

(* memset(&txpkt, 0, sizeof txpkt) *)
ZeroTxpkt ==
    [tx_mode |-> "IMMEDIATE", count_us |-> 0, freq_hz |-> 0, rf_chain |-> 0,
     rf_power |-> 0, modulation |-> "MOD_UNDEFINED", datarate |-> 0,
     bandwidth |-> 0, coderate |-> "CR_UNDEFINED", invert_pol |-> FALSE,
     preamble |-> 0, no_crc |-> FALSE, no_header |-> FALSE, f_dev |-> 0,
     size |-> 0, payload |-> <<>>]

MIN_LORA_PREAMB == 6
STD_LORA_PREAMB == 8
MIN_FSK_PREAMB == 3
STD_FSK_PREAMB == 4

CastU8(x) == x % 256
CastU16(x) == x % 65536
CastU32(x) == x    \* exact for the values below 2^31 used here
CastI8(x) == ((x + 128) % 256) - 128

(* "prea": optional, with a minimum enforced (lines 2416-2426, 2451-2461) *)
Preamble(t, min, std) ==
    IF Has(t, "prea")
      THEN IF t.prea >= min THEN CastU16(t.prea) ELSE min
      ELSE std

CoderateLenient(str) ==
    CASE str = "4/5" -> "CR_LORA_4_5"
      [] str = "4/6" -> "CR_LORA_4_6"
      [] str = "2/3" -> "CR_LORA_4_6"
      [] str = "4/7" -> "CR_LORA_4_7"
      [] str = "4/8" -> "CR_LORA_4_8"
      [] str = "1/2" -> "CR_LORA_4_8"
      [] OTHER -> "CR_LORA_4_5"

(* "codr" (2399-2410) *)
Coderate(str) ==
    CASE str = "4/5" -> "CR_LORA_4_5"
      [] str = "4/6" -> "CR_LORA_4_6"
      [] str = "2/3" -> "CR_LORA_4_6"
      [] str = "4/7" -> "CR_LORA_4_7"
      [] str = "4/8" -> "CR_LORA_4_8"
      [] str = "1/2" -> "CR_LORA_4_8"
      [] OTHER -> "CR_UNDEFINED"

(* b64_to_bin (line 2485): str is the base64 text as its 6-bit symbol   *)
(* values, a value above 63 standing for the padding character '=';     *)
(* four symbols give three bytes, two with one padding symbol, one with *)
(* two.  The bytes decoded from symbol i on                              *)
RECURSIVE b64_from(_, _)
b64_from(str, i) ==
    IF i + 3 > Len(str) THEN <<>>
    ELSE LET pad(c) == c > 63
             six(c) == IF pad(c) THEN 0 ELSE c
             v == six(str[i]) * 262144 + six(str[i + 1]) * 4096
                    + six(str[i + 2]) * 64 + six(str[i + 3])
             n == IF pad(str[i + 2]) THEN 1
                  ELSE IF pad(str[i + 3]) THEN 2 ELSE 3
         IN  SubSeq(<<v \div 65536, (v \div 256) % 256, v % 256>>, 1, n)
               \o b64_from(str, i + 4)
b64_to_bin(str) == b64_from(str, 1)

(* the fields after the timing mode (lines 2314-2498); t is the txpk     *)
(* object, pkt the TX structure filled so far.  [ok, txpkt]              *)
ParseFields(t, pkt, sent_immediate) ==
    LET fail == [ok |-> FALSE, txpkt |-> pkt]
        p1 == [pkt EXCEPT
                 !.no_crc = IF Has(t, "ncrc") THEN t.ncrc ELSE @,
                 !.freq_hz = IF Has(t, "freq") THEN CastU32(t.freq) ELSE @,
                 !.rf_chain = IF Has(t, "rfch") THEN CastU8(t.rfch) ELSE @,
                 !.rf_power = IF Has(t, "powe") THEN CastI8(t.powe) ELSE @]
        lora == [p1 EXCEPT
                 !.modulation = "MOD_LORA",
                 !.datarate = t.datr.sf,
                 !.bandwidth = t.datr.bw,
                 !.coderate = Coderate(t.codr),
                 !.invert_pol = IF Has(t, "ipol") THEN t.ipol ELSE @,
                 !.preamble = Preamble(t, MIN_LORA_PREAMB, STD_LORA_PREAMB)]
        fsk == [p1 EXCEPT
                 !.modulation = "MOD_FSK",
                 !.datarate = CastU32(t.datr),
                 !.f_dev = CastU8(t.fdev \div 1000),
                 !.preamble = Preamble(t, MIN_FSK_PREAMB, STD_FSK_PREAMB)]
        finish(p2) ==
            IF ~Has(t, "size") \/ ~Has(t, "data") THEN fail
            ELSE [ok |-> TRUE,
                  txpkt |-> [p2 EXCEPT
                     !.size = CastU16(t.size),
                     !.payload = b64_to_bin(t.data),
                     !.tx_mode = IF sent_immediate THEN "IMMEDIATE"
                                                   ELSE "TIMESTAMPED"]]
    IN  IF ~Has(t, "freq") \/ ~Has(t, "rfch") \/ ~Has(t, "modu") THEN fail
        ELSE IF t.modu = "LORA"
          THEN IF \/ ~Has(t, "datr") \/ ~Has(t, "codr") THEN fail
               ELSE IF \/ ~t.datr.fmt
                       \/ t.datr.sf \notin 7..12
                       \/ t.datr.bw \notin {125, 250, 500}
                       \/ Coderate(t.codr) = "CR_UNDEFINED" THEN fail
               ELSE finish(lora)
        ELSE IF t.modu = "FSK"
          THEN IF ~Has(t, "datr") \/ ~Has(t, "fdev") THEN fail
               ELSE finish(fsk)
        ELSE fail

(* the header test of line 2196 *)
DownHeaderOk(m) ==
    /\ m.len >= 4
    /\ m.ver = PROTOCOL_VERSION
    /\ (m.typ = PKT_PULL_RESP \/ m.typ = PKT_PULL_ACK)

(* the token test of line 2205 *)
TokenMatchBug(d, m) == m.tok_h = d.token_h
TokenMatch(d, m) == m.tok_h = d.token_h /\ m.tok_l = d.token_l

(* the auto-quit test of line 2093 *)
AutoquitReachedBug(cnt) == cnt + 1 >= conf.autoquit_threshold
AutoquitReached(cnt) ==
    (conf.autoquit_threshold > 0) /\ (cnt >= conf.autoquit_threshold)

(* what thread_down does with a received datagram, from line 2190 to the *)
(* next suspension point: the next pc, the locals, and whether a         *)
(* PULL_ACK was accepted                                                 *)
Dispatch(d, m) ==
    LET drop == [pc |-> "inner", dn |-> d, accepted |-> FALSE]
        parsed(pkt, imme) ==
            LET r == ParseFields(m.body.txpk, pkt, imme)
            IN  IF r.ok
                  THEN [pc |-> "tx_dw",
                        dn |-> [d EXCEPT !.txpkt = r.txpkt,
                                         !.sent_immediate = imme],
                        accepted |-> FALSE]
                  ELSE [drop EXCEPT !.dn = [d EXCEPT !.sent_immediate = imme]]
    IN  IF m.len = -1 THEN drop
        ELSE IF ~DownHeaderOk(m) THEN drop
        ELSE IF m.typ = PKT_PULL_ACK
          THEN IF TokenMatch(d, m) /\ ~d.req_ack
                 THEN [pc |-> "ack_cnt",
                       dn |-> [d EXCEPT !.req_ack = TRUE, !.autoquit_cnt = 0],
                       accepted |-> TRUE]
                 ELSE drop
        ELSE IF m.body.json # "ok" THEN drop
        ELSE IF Has(m.body.txpk, "imme") /\ m.body.txpk.imme
          THEN parsed(ZeroTxpkt, TRUE)
        ELSE IF Has(m.body.txpk, "tmst")
          THEN parsed([ZeroTxpkt EXCEPT !.count_us = CastU32(m.body.txpk.tmst)],
                      FALSE)
        ELSE IF ~Has(m.body.txpk, "time")
          THEN [drop EXCEPT !.dn = [d EXCEPT !.sent_immediate = FALSE]]
        ELSE IF conf.gps_active
          THEN [pc |-> "resp_tref",
                dn |-> [d EXCEPT !.sent_immediate = FALSE],
                accepted |-> FALSE]
          ELSE [drop EXCEPT !.dn = [d EXCEPT !.sent_immediate = FALSE]]

(* the datagrams the server may send on the downstream socket *)
DownAcks(lens, vers, toks) ==
    {[len |-> l, ver |-> v, typ |-> PKT_PULL_ACK, tok_h |-> h, tok_l |-> tl,
      body |-> NoBody] :
        l \in lens, v \in vers, h \in toks, tl \in toks}
DownDatagrams ==
    conf.dn_acks
    \cup {[len |-> 4, ver |-> PROTOCOL_VERSION, typ |-> PKT_PUSH_ACK,
           tok_h |-> 0, tok_l |-> 0, body |-> NoBody]}
    \cup {[len |-> 4 + b.len, ver |-> v, typ |-> PKT_PULL_RESP, tok_h |-> 0,
           tok_l |-> 0, body |-> b] :
            v \in conf.resp_vers, b \in conf.resp_bodies}

(* lgw_utc2cnt: the concentrator counter at a UTC second *)
lgw_utc2cnt(ref, utc_sec) ==
    CastU32(ref.count_us + (utc_sec - ref.utc) * 1000000)

SetDown(ic, newpc, newdn) ==
    /\ pc_down' = [pc_down EXCEPT ![ic] = newpc]
    /\ dn' = [dn EXCEPT ![ic] = newdn]

(* thread_down sets SO_RCVTIMEO on its downstream socket (2023-2028) *)
DownStart(ic) ==
    /\ Running /\ pc_down[ic] = "start"
    /\ \E ok \in BOOLEAN :
         IF ok /\ sock_state[ic] = "connected"
           THEN SetDown(ic, "head", dn[ic]) /\ UNCHANGED proc
           ELSE SetDown(ic, "aborted", dn[ic]) /\ proc' = "exit_failure"
    /\ UNCHANGED <<conf, fuel, sigVars, mx, measVars, repVars, gpsShared,
                   mainVars, upVars, gpsVars, validVars, hist, envVars>>

(* loop head (line 2090), auto-quit (2093) and the PULL_DATA send (2106) *)
DownHead(ic) ==
    /\ Running /\ pc_down[ic] = "head"
    /\ IF exit_sig \/ quit_sig
         THEN /\ SetDown(ic, "done", dn[ic])
              /\ UNCHANGED <<exit_sig, fuel, hist>>
         ELSE IF AutoquitReached(dn[ic].autoquit_cnt)
         THEN /\ exit_sig' = TRUE
              /\ SetDown(ic, "done", dn[ic])
              /\ hist' = [hist EXCEPT !.autoquit[ic] = TRUE]
              /\ UNCHANGED fuel
         ELSE /\ fuel.down[ic] > 0
              /\ fuel' = [fuel EXCEPT !.down[ic] = @ - 1]
              /\ \E h \in conf.tok_bytes, tl \in conf.tok_bytes :
                   SetDown(ic, "pull_cnt",
                           [dn[ic] EXCEPT !.token_h = h, !.token_l = tl])
              /\ hist' = [hist EXCEPT !.unacked[ic] = @ + 1,
                                      !.sess_acks[ic] = 0,
                                      !.sess_match[ic] = 0]
              /\ UNCHANGED exit_sig
    /\ UNCHANGED <<proc, conf, quit_sig, mx, measVars, repVars, gpsShared,
                   mainVars, upVars, gpsVars, validVars, envVars>>

(* meas_dw_pull_sent under mx_meas_dw (2108-2110), then req_ack and     *)
(* autoquit_cnt (2111-2112) and recv_time = send_time (2115)             *)
DownPullCnt(ic) ==
    /\ Running /\ pc_down[ic] = "pull_cnt"
    /\ CritSec(DownName(ic), "mx_meas_dw")
    /\ meas_dw' = [meas_dw EXCEPT !.dw_pull_sent = Add32(@, 1)]
    /\ SetDown(ic, "inner",
               [dn[ic] EXCEPT !.req_ack = FALSE,
                              !.autoquit_cnt = Add32(@, 1),
                              !.elapsed = 0, !.nrecv = 0])
    /\ hist' = [hist EXCEPT !.tot_dw = Applied(@, meas_dw, meas_dw')]
    /\ UNCHANGED <<proc, conf, fuel, sigVars, mx, meas_up, repVars,
                   gpsShared, mainVars, upVars, gpsVars, validVars,
                   envVars>>

(* one step with the result of Dispatch; buff_down is kept only while    *)
(* the code still reads it                                               *)
DownApply(ic, r, m) ==
    SetDown(ic, r.pc,
            [r.dn EXCEPT !.msg = IF r.pc \in {"inner", "ack_cnt"}
                                   THEN NoMsg ELSE m])

(* what a received datagram is, by the protocol's own terms *)
Malformed(len, ver) == len >= 0 /\ (len < 4 \/ ver # PROTOCOL_VERSION)
RxKindDown(d, m) ==
    IF m.len = -1 THEN "timeout"
    ELSE IF Malformed(m.len, m.ver) THEN "malformed"
    ELSE IF m.typ # PKT_PULL_ACK THEN "other"
    ELSE IF m.tok_h = d.token_h /\ m.tok_l = d.token_l THEN "ack_match"
    ELSE "ack_other"

(* the test of the inner loop (line 2116) and recv (2119): a datagram or  *)
(* a timeout, and the clock read after it; then the test of the beacon    *)
(* flag (2125) and, with no beacon to build, the datagram's processing    *)
DownRecv(ic) ==
    /\ Running /\ pc_down[ic] = "inner"
    /\ IF dn[ic].elapsed < conf.keepalive_time
         THEN /\ dn[ic].nrecv < MaxRecv
              /\ \E m \in {NoMsg} \cup DownDatagrams,
                    e \in {dn[ic].elapsed, conf.keepalive_time} :
                   /\ (dn[ic].nrecv + 1 = MaxRecv) => e = conf.keepalive_time
                   /\ LET d == [dn[ic] EXCEPT !.elapsed = e, !.nrecv = @ + 1]
                          k == RxKindDown(d, m)
                      IN  /\ IF beacon_next_pps /\ conf.gps_active
                               THEN SetDown(ic, "bcn_tref",
                                            [d EXCEPT !.msg = m])
                               ELSE DownApply(ic, Dispatch(d, m), m)
                          /\ hist' = [hist EXCEPT
                                 !.drx[ic] = k,
                                 !.sess_match[ic] =
                                    IF k = "ack_match" THEN @ + 1 ELSE @,
                                 !.unacked[ic] = IF k = "ack_match"
                                                   THEN 0 ELSE @]
         ELSE SetDown(ic, "head", dn[ic]) /\ UNCHANGED hist
    /\ UNCHANGED <<proc, conf, fuel, sigVars, mx, measVars, repVars,
                   gpsShared, mainVars, upVars, gpsVars, validVars,
                   envVars>>

(* the datagram's processing after the beacon path *)
DownDispatch(ic) ==
    /\ Running /\ pc_down[ic] = "dispatch"
    /\ DownApply(ic, Dispatch(dn[ic], dn[ic].msg), dn[ic].msg)
    /\ UNCHANGED <<proc, conf, fuel, sigVars, mx, measVars, repVars,
                   gpsShared, mainVars, upVars, gpsVars, validVars, hist,
                   envVars>>

(* meas_dw_ack_rcv under mx_meas_dw (2211-2213) *)
DownAckCnt(ic) ==
    /\ Running /\ pc_down[ic] = "ack_cnt"
    /\ CritSec(DownName(ic), "mx_meas_dw")
    /\ meas_dw' = [meas_dw EXCEPT !.dw_ack_rcv = Add32(@, 1)]
    /\ SetDown(ic, "inner", dn[ic])
    /\ hist' = [hist EXCEPT !.sess_acks[ic] = @ + 1,
                            !.tot_dw = Applied(@, meas_dw, meas_dw')]
    /\ UNCHANGED <<proc, conf, fuel, sigVars, mx, meas_up, repVars,
                   gpsShared, mainVars, upVars, gpsVars, validVars,
                   envVars>>

DownRespTrefAnyRef(ic) ==
    /\ Running /\ pc_down[ic] = "resp_tref"
    /\ CritSec(DownName(ic), "mx_timeref")
    /\ LET t == dn[ic].msg.body.txpk
           back == [dn[ic] EXCEPT !.msg = NoMsg]
       IN  IF t.time.fmt
             THEN \E conv_ok \in BOOLEAN :
                    LET pkt == [ZeroTxpkt EXCEPT !.count_us =
                                  lgw_utc2cnt(time_reference_gps, t.time.sec)]
                        r == ParseFields(t, pkt, FALSE)
                    IN  IF conv_ok /\ r.ok
                          THEN SetDown(ic, "tx_dw",
                                       [dn[ic] EXCEPT !.txpkt = r.txpkt])
                          ELSE SetDown(ic, "inner", back)
             ELSE SetDown(ic, "inner", back)
    /\ UNCHANGED <<proc, conf, fuel, sigVars, mx, measVars, repVars,
                   gpsShared, mainVars, upVars, gpsVars, validVars, hist,
                   envVars>>

(* "time" given: the time reference is copied under mx_timeref (2270-    *)
(* 2275), then converted and the remaining fields parsed                 *)
DownRespTref(ic) ==
    /\ Running /\ pc_down[ic] = "resp_tref"
    /\ CritSec(DownName(ic), "mx_timeref")
    /\ LET t == dn[ic].msg.body.txpk
           back == [dn[ic] EXCEPT !.msg = NoMsg]
       IN  IF gps_ref_valid /\ t.time.fmt
             THEN \E conv_ok \in BOOLEAN :
                    LET pkt == [ZeroTxpkt EXCEPT !.count_us =
                                  lgw_utc2cnt(time_reference_gps, t.time.sec)]
                        r == ParseFields(t, pkt, FALSE)
                    IN  IF conv_ok /\ r.ok
                          THEN SetDown(ic, "tx_dw",
                                       [dn[ic] EXCEPT !.txpkt = r.txpkt])
                          ELSE SetDown(ic, "inner", back)
             ELSE SetDown(ic, "inner", back)
    /\ UNCHANGED <<proc, conf, fuel, sigVars, mx, measVars, repVars,
                   gpsShared, mainVars, upVars, gpsVars, validVars, hist,
                   envVars>>

(* the counters of an accepted PULL_RESP, under mx_meas_dw (2501-2504)   *)
DownTxLockDw(ic) ==
    /\ Running /\ pc_down[ic] = "tx_dw"
    /\ Acquire(DownName(ic), "mx_meas_dw")
    /\ meas_dw' = [meas_dw EXCEPT
                     !.dw_dgram_rcv = Add32(@, 1),
                     !.dw_network_byte = Add32(@, dn[ic].msg.len),
                     !.dw_payload_byte = Add32(@, dn[ic].txpkt.size)]
    /\ SetDown(ic, "tx_conc", [dn[ic] EXCEPT !.msg = NoMsg])
    /\ hist' = [hist EXCEPT !.tot_dw = Applied(@, meas_dw, meas_dw')]
    /\ UNCHANGED <<proc, conf, fuel, sigVars, meas_up, repVars, gpsShared,
                   mainVars, upVars, gpsVars, validVars, envVars>>

(* pthread_mutex_lock(&mx_concent) with mx_meas_dw still held (2507)     *)
DownTxLockConc(ic) ==
    /\ Running /\ pc_down[ic] = "tx_conc"
    /\ Acquire(DownName(ic), "mx_concent")
    /\ SetDown(ic, "tx_send", dn[ic])
    /\ UNCHANGED <<proc, conf, fuel, sigVars, measVars, repVars, gpsShared,
                   mainVars, upVars, gpsVars, validVars, hist, envVars>>

DownTxSendOkOnly(ic) ==
    /\ Running /\ pc_down[ic] = "tx_send"
    /\ \E res \in {0, LGW_HAL_ERROR} :
         meas_dw' = IF res = LGW_HAL_ERROR
                      THEN meas_dw
                      ELSE [meas_dw EXCEPT !.nb_tx_ok = Add32(@, 1)]
    /\ mx' = [mx EXCEPT !["mx_concent"] = NoOwner, !["mx_meas_dw"] = NoOwner]
    /\ mx["mx_concent"] = DownName(ic) /\ mx["mx_meas_dw"] = DownName(ic)
    /\ SetDown(ic, "inner", [dn[ic] EXCEPT !.txpkt = ZeroTxpkt])
    /\ hist' = [hist EXCEPT !.n_send = @ + 1, !.last_tx = dn[ic].txpkt,
                            !.tot_dw = Applied(@, meas_dw, meas_dw')]
    /\ UNCHANGED <<proc, conf, fuel, sigVars, meas_up, repVars, gpsShared,
                   mainVars, upVars, gpsVars, validVars, envVars>>

DownTxSendLeak(ic) ==
    /\ Running /\ pc_down[ic] = "tx_send"
    /\ mx["mx_concent"] = DownName(ic) /\ mx["mx_meas_dw"] = DownName(ic)
    /\ \E res \in {0, LGW_HAL_ERROR} :
         /\ meas_dw' = IF res = LGW_HAL_ERROR
                         THEN [meas_dw EXCEPT !.nb_tx_fail = Add32(@, 1)]
                         ELSE [meas_dw EXCEPT !.nb_tx_ok = Add32(@, 1)]
         /\ mx' = [mx EXCEPT !["mx_concent"] = NoOwner,
                             !["mx_meas_dw"] =
                               IF res = LGW_HAL_ERROR THEN @ ELSE NoOwner]
    /\ SetDown(ic, "inner", [dn[ic] EXCEPT !.txpkt = ZeroTxpkt])
    /\ hist' = [hist EXCEPT !.n_send = @ + 1, !.last_tx = dn[ic].txpkt,
                            !.tot_dw = Applied(@, meas_dw, meas_dw')]
    /\ UNCHANGED <<proc, conf, fuel, sigVars, meas_up, repVars, gpsShared,
                   mainVars, upVars, gpsVars, validVars, envVars>>

(* lgw_send returns (2508), the concentrator is released (2509), the     *)
(* result is counted and mx_meas_dw released (2510-2518)                 *)
DownTxSend(ic) ==
    /\ Running /\ pc_down[ic] = "tx_send"
    /\ \E res \in {0, LGW_HAL_ERROR} :
         meas_dw' = IF res = LGW_HAL_ERROR
                      THEN [meas_dw EXCEPT !.nb_tx_fail = Add32(@, 1)]
                      ELSE [meas_dw EXCEPT !.nb_tx_ok = Add32(@, 1)]
    /\ mx' = [mx EXCEPT !["mx_concent"] = NoOwner, !["mx_meas_dw"] = NoOwner]
    /\ mx["mx_concent"] = DownName(ic) /\ mx["mx_meas_dw"] = DownName(ic)
    /\ SetDown(ic, "inner", [dn[ic] EXCEPT !.txpkt = ZeroTxpkt])
    /\ hist' = [hist EXCEPT !.n_send = @ + 1, !.last_tx = dn[ic].txpkt,
                            !.tot_dw = Applied(@, meas_dw, meas_dw')]
    /\ UNCHANGED <<proc, conf, fuel, sigVars, meas_up, repVars, gpsShared,
                   mainVars, upVars, gpsVars, validVars, envVars>>

(* ------------------------------------------------------------------ *)
(* thread_down: the beacon path (lines 2125-2187)                       *)
(* ------------------------------------------------------------------ *)
BeaconPolls == 1500 \div BEACON_POLL_MS

(* bitwise exclusive or of two naturals *)
RECURSIVE Xor(_, _)
Xor(a, b) ==
    IF a = 0 THEN b
    ELSE IF b = 0 THEN a
    ELSE ((a + b) % 2) + 2 * Xor(a \div 2, b \div 2)

(* x = (x & top) ? (x<<1) ^ crc_poly : (x<<1), in a register of w bits,  *)
(* j times (the inner loops of lines 976-978 and 994-996)                *)
RECURSIVE CrcShift(_, _, _, _)
CrcShift(x, w, poly, j) ==
    LET y == IF x >= 2 ^ (w - 1) THEN Xor((2 * x) % (2 ^ w), poly)
                                 ELSE (2 * x) % (2 ^ w)
    IN  IF j = 0 THEN x
        ELSE IF y < 0 THEN y
        ELSE CrcShift(y, w, poly, j - 1)

(* crc_ccit (962-981): polynomial 0x1021, initial value 0xFFFF *)
RECURSIVE crc_ccit_from(_, _, _)
crc_ccit_from(data, i, x) ==
    IF i > Len(data) \/ x < 0 THEN x
    ELSE crc_ccit_from(data, i + 1,
                       CrcShift(Xor(x, data[i] * 256), 16, 4129, 8))
crc_ccit(data) == crc_ccit_from(data, 1, 65535)

(* crc8_ccit (983-1000): polynomial 0x87, initial value 0xFF *)
RECURSIVE crc8_ccit_from(_, _, _)
crc8_ccit_from(data, i, x) ==
    IF i > Len(data) \/ x < 0 THEN x
    ELSE crc8_ccit_from(data, i + 1, CrcShift(Xor(x, data[i]), 8, 135, 8))
crc8_ccit(data) == crc8_ccit_from(data, 1, 255)

(* 0xFF & (x >> 8k) of a two's complement x, k < 3 *)
ByteOf(x, k) == ((x % (2 ^ 24)) \div (2 ^ (8 * k))) % 256
(* the n bytes of payload p from index from *)
Bytes(p, from, n) == [i \in 1..n |-> p[from + i - 1]]
(* (int32_t) of a quotient: truncation toward zero *)
TruncDiv(a, b) == IF a < 0 THEN -((-a) \div b) ELSE a \div b

(* a byte of beacon_pkt.payload that no statement has written yet *)
Uninit == -1

(* field_latitude (2069-2074) and field_longitude (2075), for reference *)
(* coordinates in whole degrees                                          *)
FieldLatitude(lat) ==
    LET f == TruncDiv(lat * (2 ^ 23), 90)
    IN  IF f > 8388607 THEN 8388607
        ELSE IF f < -8388608 THEN -8388608 ELSE f
FieldLongitude(lon) == TruncDiv(lon * (2 ^ 23), 180) % (2 ^ 24)

(* beacon_pkt.payload as thread_down leaves it before its loop          *)
(* (2061-2088): network id, information byte, latitude, longitude and    *)
(* their CRC-16; bytes 3 to 7 are not written                            *)
BeaconInit(c) ==
    LET lat == FieldLatitude(c.ref_lat)
        lon == FieldLongitude(c.ref_lon)
        p == [k \in 0..16 |->
                CASE k = 0 -> 238 [] k = 1 -> 255 [] k = 2 -> 192
                  [] k = 8 -> 0
                  [] k \in 9..11 -> ByteOf(lat, k - 9)
                  [] k \in 12..14 -> ByteOf(lon, k - 12)
                  [] OTHER -> Uninit]
        field_crc2 == crc_ccit(Bytes(p, 8, 7))
    IN  [p EXCEPT ![15] = field_crc2 % 256, ![16] = field_crc2 \div 256]

(* the time loaded into the payload (2133-2136) and the CRC-8 of the     *)
(* first 7 bytes (2139-2140); junk is what the bytes never written hold  *)
LoadBeacon(p, field_time, junk) ==
    LET p1 == [p EXCEPT ![9] = field_time % 256,
                        ![10] = (field_time \div 256) % 256,
                        ![11] = (field_time \div 65536) % 256,
                        ![12] = (field_time \div 16777216) % 256]
        p2 == [k \in 0..16 |->
                 IF k \in 3..6 /\ p1[k] = Uninit THEN junk[k] ELSE p1[k]]
    IN  [p2 EXCEPT ![7] = crc8_ccit(Bytes(p2, 0, 7))]

DownBcnTrefKeepOnSkip(ic) ==
    /\ Running /\ pc_down[ic] = "bcn_tref"
    /\ CritSec(DownName(ic), "mx_timeref")
    /\ IF gps_ref_valid /\ xtal_correct_ok
         THEN /\ beacon_next_pps' = FALSE
              /\ \E junk \in [3..6 -> conf.junk_bytes] :
                   LET field_time == CastU32(time_reference_gps.utc + 1)
                   IN  SetDown(ic, "bcn_xcorr",
                          [dn[ic] EXCEPT
                             !.field_time = field_time,
                             !.payload = LoadBeacon(@, field_time, junk)])
         ELSE /\ UNCHANGED beacon_next_pps
              /\ SetDown(ic, "dispatch", dn[ic])
    /\ UNCHANGED <<proc, conf, fuel, sigVars, mx, measVars, repVars,
                   gps_ref_valid, xtal_correct_ok, time_reference_gps,
                   xtal_correct, gps_coord_valid, mainVars, upVars, gpsVars,
                   validVars, hist, envVars>>

(* under mx_timeref the flag is cleared and the beacon is built or      *)
(* skipped (2126-2130, 2185); the payload is loaded right after the      *)
(* unlock (2133-2140)                                                    *)
DownBcnTref(ic) ==
    /\ Running /\ pc_down[ic] = "bcn_tref"
    /\ CritSec(DownName(ic), "mx_timeref")
    /\ beacon_next_pps' = FALSE
    /\ IF gps_ref_valid /\ xtal_correct_ok
         THEN \E junk \in [3..6 -> conf.junk_bytes] :
                LET field_time == CastU32(time_reference_gps.utc + 1)
                IN  SetDown(ic, "bcn_xcorr",
                       [dn[ic] EXCEPT
                          !.field_time = field_time,
                          !.payload = LoadBeacon(@, field_time, junk)])
         ELSE SetDown(ic, "dispatch", dn[ic])
    /\ UNCHANGED <<proc, conf, fuel, sigVars, mx, measVars, repVars,
                   gps_ref_valid, xtal_correct_ok, time_reference_gps,
                   xtal_correct, gps_coord_valid, mainVars, upVars, gpsVars,
                   validVars, hist, envVars>>

(* beacon_pkt.freq_hz = (uint32_t)(xtal_correct * beacon_freq_hz), under *)
(* mx_xcorr (2143-2145)                                                  *)
DownBcnXcorr(ic) ==
    /\ Running /\ pc_down[ic] = "bcn_xcorr"
    /\ CritSec(DownName(ic), "mx_xcorr")
    /\ SetDown(ic, "bcn_conc",
               [dn[ic] EXCEPT !.beacon_freq_hz =
                  CastU32((xtal_correct[1] * conf.beacon_freq_hz)
                            \div xtal_correct[2])])
    /\ UNCHANGED <<proc, conf, fuel, sigVars, mx, measVars, repVars,
                   gpsShared, mainVars, upVars, gpsVars, validVars, hist,
                   envVars>>

DownBcnLockConc(ic) ==
    /\ Running /\ pc_down[ic] = "bcn_conc"
    /\ Acquire(DownName(ic), "mx_concent")
    /\ SetDown(ic, "bcn_send", dn[ic])
    /\ UNCHANGED <<proc, conf, fuel, sigVars, measVars, repVars, gpsShared,
                   mainVars, upVars, gpsVars, validVars, hist, envVars>>

(* lgw_send(beacon_pkt) returns and the concentrator is released *)
DownBcnSend(ic) ==
    /\ Running /\ pc_down[ic] = "bcn_send"
    /\ Release(DownName(ic), "mx_concent")
    /\ \E res \in {0, LGW_HAL_ERROR} :
         IF res = LGW_HAL_ERROR
           THEN SetDown(ic, "dispatch", [dn[ic] EXCEPT !.i = 0])
           ELSE SetDown(ic, "bcn_poll",
                        [dn[ic] EXCEPT !.i = 0,
                                       !.tx_status_var = "TX_STATUS_UNKNOWN"])
    /\ hist' = [hist EXCEPT !.n_beacon = @ + 1,
                            !.last_beacon = [field_time |-> dn[ic].field_time,
                                             freq_hz |-> dn[ic].beacon_freq_hz,
                                             payload |-> dn[ic].payload]]
    /\ UNCHANGED <<proc, conf, fuel, sigVars, measVars, repVars, gpsShared,
                   mainVars, upVars, gpsVars, validVars, envVars>>

(* the polling loop: wait_ms, then lgw_status under mx_concent *)
DownBcnPoll(ic) ==
    /\ Running /\ pc_down[ic] = "bcn_poll"
    /\ IF dn[ic].i < BeaconPolls /\ dn[ic].tx_status_var # "TX_FREE"
         THEN /\ Acquire(DownName(ic), "mx_concent")
              /\ SetDown(ic, "bcn_status", dn[ic])
         ELSE /\ SetDown(ic, "dispatch",
                         [dn[ic] EXCEPT !.i = 0,
                             !.tx_status_var = "TX_STATUS_UNKNOWN"])
              /\ UNCHANGED mx
    /\ UNCHANGED <<proc, conf, fuel, sigVars, measVars, repVars, gpsShared,
                   mainVars, upVars, gpsVars, validVars, hist, envVars>>

DownBcnStatus(ic) ==
    /\ Running /\ pc_down[ic] = "bcn_status"
    /\ Release(DownName(ic), "mx_concent")
    /\ \E st \in {"TX_FREE", "TX_SCHEDULED"} :
         /\ (dn[ic].i + 1 >= conf.max_polls) => st = "TX_FREE"
         /\ SetDown(ic, "bcn_poll",
                    [dn[ic] EXCEPT !.tx_status_var = st, !.i = @ + 1])
    /\ UNCHANGED <<proc, conf, fuel, sigVars, measVars, repVars, gpsShared,
                   mainVars, upVars, gpsVars, validVars, hist, envVars>>

DownPull ==
    \/ \E ic \in LiveServers : DownHead(ic)
    \/ \E ic \in LiveServers : DownPullCnt(ic)
    \/ \E ic \in LiveServers : DownRecv(ic)
    \/ \E ic \in LiveServers : DownAckCnt(ic)

DownTx ==
    \/ \E ic \in LiveServers : DownTxLockDw(ic)
    \/ \E ic \in LiveServers : DownTxLockConc(ic)
    \/ \E ic \in LiveServers : DownTxSend(ic)

DownTime == \E ic \in LiveServers : DownRespTref(ic)

DownBeacon ==
    \/ \E ic \in LiveServers : DownBcnTref(ic)
    \/ \E ic \in LiveServers : DownBcnXcorr(ic)
    \/ \E ic \in LiveServers : DownBcnLockConc(ic)
    \/ \E ic \in LiveServers : DownBcnSend(ic)
    \/ \E ic \in LiveServers : DownBcnPoll(ic)
    \/ \E ic \in LiveServers : DownBcnStatus(ic)
    \/ \E ic \in LiveServers : DownDispatch(ic)

(* ------------------------------------------------------------------ *)
(* thread_up (lines 1481-1970)                                          *)
(* ------------------------------------------------------------------ *)
NoReport == [with_coord |-> FALSE, rxnb |-> 0, rxok |-> 0, rxfw |-> 0,
             ackr |-> <<0, 0>>, dwnb |-> 0, txnb |-> 0]
NoAck == [len |-> -1, errno |-> "EAGAIN", ver |-> 0, typ |-> 0,
          tok_h |-> 0, tok_l |-> 0]

(* the locals of thread_up; pkt_in_dgram is Len(rxpk) *)
InitUp ==
    [nb_pkt |-> 0, rxpkt |-> <<>>, send_report |-> FALSE, ref_ok |-> FALSE,
     token_h |-> 0, token_l |-> 0, i |-> 0, rxpk |-> <<>>,
     stat |-> "none", buff_index |-> 0, ic |-> 0]

SeqsUpTo(S, n) == UNION {[1..k -> S] : k \in 0..n}
Min(a, b) == IF a < b THEN a ELSE b

(* the first live server at or after index k, serv_count if there is none *)
NextLive(k) ==
    LET live == {ic \in Servers : ic >= k /\ conf.serv_live[ic]}
    IN  IF live = {} THEN conf.serv_count
        ELSE CHOOSE ic \in live : \A o \in live : ic <= o

(* the "stat" member of an rxpk object (lines 1736-1752) *)
StatCode(status) ==
    CASE status = STAT_CRC_OK -> "1"
      [] status = STAT_CRC_BAD -> "-1"
      [] status = STAT_NO_CRC -> "0"
      [] OTHER -> "?"

(* bin_to_b64: 4 characters per 3 bytes, padded *)
B64Len(size) == 4 * ((size + 2) \div 3)

(* one packet as an rxpk object, and the characters it takes *)
SerializePkt(pkt, ref_ok) ==
    [tmst |-> pkt.count_us,
     time |-> IF conf.gps_active
                THEN IF ref_ok THEN "utc" ELSE "absent"
                ELSE "fetch",
     stat |-> StatCode(pkt.status), size |-> pkt.size, data |-> pkt.size]
RxpkLen(obj) ==
    100 + (IF obj.time = "absent" THEN 0 ELSE 37)
        + (IF obj.stat = "-1" THEN 10 ELSE 9) + B64Len(obj.size)

(* the characters of the "stat" object (1424-1428) *)
ReportLen(rep) == IF rep.with_coord THEN 230 ELSE 190

(* the filter of lines 1644-1676, under mx_meas_up: the counters after   *)
(* the packet and whether it goes on to serialization                    *)
FilterPktFallThrough(m, pkt) ==
    LET m1 == [m EXCEPT !.rx_rcv = Add32(@, 1)]
        ok == pkt.status = STAT_CRC_OK
        bad == ok \/ pkt.status = STAT_CRC_BAD
        nocrc == pkt.status = STAT_NO_CRC
        fwd == (bad /\ conf.fwd_error_pkt) \/ (nocrc /\ conf.fwd_nocrc_pkt)
    IN  [meas |-> [m1 EXCEPT
                     !.rx_ok = IF ok THEN Add32(@, 1) ELSE @,
                     !.rx_bad = IF bad THEN Add32(@, 1) ELSE @,
                     !.rx_nocrc = IF nocrc THEN Add32(@, 1) ELSE @,
                     !.up_pkt_fwd = IF fwd THEN Add32(@, 1) ELSE @,
                     !.up_payload_byte = IF fwd THEN Add32(@, pkt.size) ELSE @],
         fwd |-> fwd]
FilterPktOneFlag(m, pkt) ==
    LET m1 == [m EXCEPT !.rx_rcv = Add32(@, 1)]
        known == pkt.status \in {STAT_CRC_OK, STAT_CRC_BAD, STAT_NO_CRC}
        fwd == known /\ conf.fwd_valid_pkt
    IN  [meas |-> [m1 EXCEPT
                     !.up_pkt_fwd = IF fwd THEN Add32(@, 1) ELSE @,
                     !.up_payload_byte = IF fwd THEN Add32(@, pkt.size) ELSE @],
         fwd |-> fwd]
FilterPktUnitSize(m, pkt) ==
    LET known == pkt.status \in {STAT_CRC_OK, STAT_CRC_BAD, STAT_NO_CRC}
        fwd == \/ pkt.status = STAT_CRC_OK /\ conf.fwd_valid_pkt
               \/ pkt.status = STAT_CRC_BAD /\ conf.fwd_error_pkt
               \/ pkt.status = STAT_NO_CRC /\ conf.fwd_nocrc_pkt
    IN  [meas |-> [m EXCEPT
                     !.rx_rcv = Add32(@, 1),
                     !.rx_ok = IF pkt.status = STAT_CRC_OK
                                 THEN Add32(@, 1) ELSE @,
                     !.rx_bad = IF pkt.status = STAT_CRC_BAD
                                  THEN Add32(@, 1) ELSE @,
                     !.rx_nocrc = IF pkt.status = STAT_NO_CRC
                                    THEN Add32(@, 1) ELSE @,
                     !.up_pkt_fwd = IF fwd THEN Add32(@, 1) ELSE @,
                     !.up_payload_byte = IF known THEN Add32(@, 1) ELSE @],
         fwd |-> fwd]
FilterPkt(m, pkt) ==
    LET m1 == [m EXCEPT !.rx_rcv = Add32(@, 1)]
        r == CASE pkt.status = STAT_CRC_OK ->
                    [meas |-> [m1 EXCEPT !.rx_ok = Add32(@, 1)],
                     fwd |-> conf.fwd_valid_pkt]
               [] pkt.status = STAT_CRC_BAD ->
                    [meas |-> [m1 EXCEPT !.rx_bad = Add32(@, 1)],
                     fwd |-> conf.fwd_error_pkt]
               [] pkt.status = STAT_NO_CRC ->
                    [meas |-> [m1 EXCEPT !.rx_nocrc = Add32(@, 1)],
                     fwd |-> conf.fwd_nocrc_pkt]
               [] OTHER -> [meas |-> m1, fwd |-> FALSE]
    IN  IF r.fwd
          THEN [meas |-> [r.meas EXCEPT
                            !.up_pkt_fwd = Add32(@, 1),
                            !.up_payload_byte = Add32(@, pkt.size)],
                fwd |-> TRUE]
          ELSE r

(* the header and token tests of the acknowledgement wait (1948-1962):   *)
(* the loop index after the datagram, whether the loop is left, and      *)
(* whether meas_up_ack_rcv is incremented                                *)
ACK_ATTEMPTS == 2
AckStepNoBreak(i, u, a) ==
    IF a.len = -1 /\ a.errno # "EAGAIN"
      THEN [i |-> i, brk |-> TRUE, acked |-> FALSE]
      ELSE [i |-> i + 1, brk |-> FALSE,
            acked |-> /\ a.len >= 4 /\ a.ver = PROTOCOL_VERSION
                      /\ a.typ = PKT_PUSH_ACK
                      /\ a.tok_h = u.token_h /\ a.tok_l = u.token_l]
AckStepStopOnTimeout(i, u, a) ==
    IF a.len = -1
      THEN [i |-> i, brk |-> TRUE, acked |-> FALSE]
    ELSE IF (a.len < 4) \/ (a.ver # PROTOCOL_VERSION) \/ (a.typ # PKT_PUSH_ACK)
      THEN [i |-> i + 1, brk |-> FALSE, acked |-> FALSE]
    ELSE IF (a.tok_h # u.token_h) \/ (a.tok_l # u.token_l)
      THEN [i |-> i + 1, brk |-> FALSE, acked |-> FALSE]
    ELSE [i |-> i, brk |-> TRUE, acked |-> TRUE]
AckStep(i, u, a) ==
    IF a.len = -1
      THEN IF a.errno = "EAGAIN"
             THEN [i |-> i + 1, brk |-> FALSE, acked |-> FALSE]
             ELSE [i |-> i, brk |-> TRUE, acked |-> FALSE]
    ELSE IF (a.len < 4) \/ (a.ver # PROTOCOL_VERSION) \/ (a.typ # PKT_PUSH_ACK)
      THEN [i |-> i + 1, brk |-> FALSE, acked |-> FALSE]
    ELSE IF (a.tok_h # u.token_h) \/ (a.tok_l # u.token_l)
      THEN [i |-> i + 1, brk |-> FALSE, acked |-> FALSE]
    ELSE [i |-> i, brk |-> TRUE, acked |-> TRUE]

(* what a recv of the acknowledgement wait returned, for the record *)
AckKind(u, a) ==
    CASE a.len = -1 /\ a.errno = "EAGAIN" -> "timeout"
      [] a.len = -1 /\ a.errno # "EAGAIN" -> "error"
      [] a.len >= 0 /\ (a.len < 4 \/ a.ver # PROTOCOL_VERSION
                        \/ a.typ # PKT_PUSH_ACK) -> "invalid"
      [] OTHER -> IF a.tok_h = u.token_h /\ a.tok_l = u.token_l
                    THEN "ack" ELSE "mismatch"

(* what recv on the upstream socket may return: a timeout, an error, or *)
(* one of the datagrams the servers send                                 *)
UpAcks(lens, vers, typs, toks) ==
    {[len |-> l, errno |-> "none", ver |-> v, typ |-> t, tok_h |-> h,
      tok_l |-> tl] :
        l \in lens, v \in vers, t \in typs, h \in toks, tl \in toks}
UpDatagrams ==
    conf.up_acks \cup {NoAck, [NoAck EXCEPT !.errno = "ECONNREFUSED"]}

UpFetchLockExitOnly ==
    /\ Running /\ pc_up = "head"
    /\ IF exit_sig
         THEN pc_up' = "done" /\ UNCHANGED <<fuel, mx>>
         ELSE /\ fuel.up > 0
              /\ fuel' = [fuel EXCEPT !.up = @ - 1]
              /\ Acquire("up", "mx_concent")
              /\ pc_up' = "fetch"
    /\ UNCHANGED <<proc, conf, sigVars, measVars, repVars, gpsShared,
                   mainVars, up, downVars, gpsVars, validVars, hist,
                   envVars>>

(* loop head (1567) and the wait for mx_concent (1571) *)
UpFetchLock ==
    /\ Running /\ pc_up = "head"
    /\ IF exit_sig \/ quit_sig
         THEN pc_up' = "done" /\ UNCHANGED <<fuel, mx>>
         ELSE /\ fuel.up > 0
              /\ fuel' = [fuel EXCEPT !.up = @ - 1]
              /\ Acquire("up", "mx_concent")
              /\ pc_up' = "fetch"
    /\ UNCHANGED <<proc, conf, sigVars, measVars, repVars, gpsShared,
                   mainVars, up, downVars, gpsVars, validVars, hist,
                   envVars>>

(* the datagram is started: token (1610) and header; with no packet the  *)
(* report alone is sent (1893-1896)                                      *)
UpCompose(u, h, tl) ==
    [u EXCEPT !.token_h = h, !.token_l = tl, !.i = 0, !.rxpk = <<>>,
              !.buff_index = IF u.nb_pkt > 0 THEN 12 + 9 ELSE 12 + 9 - 8]

(* lgw_receive and ghost_get return (1572-1573), mx_concent is released, *)
(* then the tests of lines 1578-1591.  With lgw_receive failing,         *)
(* ghost_get is handed &rxpkt[-1] and its count hides the error.         *)
UpFetch ==
    /\ Running /\ pc_up = "fetch"
    /\ Release("up", "mx_concent")
    /\ \E r \in IF conf.radiostream_enabled
                  THEN {<<LGW_HAL_ERROR, <<>>>>}
                       \cup {<<Len(q), q>> :
                               q \in SeqsUpTo(conf.rx_pkts, MaxPkt)}
                  ELSE {<<0, <<>>>>},
          g \in IF conf.ghoststream_enabled
                  THEN SeqsUpTo(conf.rx_pkts, MaxPkt) ELSE {<<>>},
          h \in conf.tok_bytes, tl \in conf.tok_bytes :
         LET nb == Len(g) + r[1]
             slots == IF r[1] = LGW_HAL_ERROR
                        THEN SubSeq(g, 2, Len(g)) ELSE r[2] \o g
             u == [up EXCEPT !.nb_pkt = nb, !.rxpkt = slots,
                             !.send_report = report_ready,
                             !.ref_ok = FALSE]
         IN  /\ Len(g) <= NB_PKT_MAX - r[1]
             /\ hist' = [hist EXCEPT
                           !.rx_err = @ \/ (r[1] = LGW_HAL_ERROR)]
             /\ IF nb = LGW_HAL_ERROR
                  THEN /\ proc' = "exit_failure"
                       /\ pc_up' = "aborted" /\ up' = InitUp
                  ELSE /\ proc' = proc
                       /\ IF nb = 0 /\ ~u.send_report
                            THEN pc_up' = "head" /\ up' = InitUp
                          ELSE IF nb > 0 /\ conf.gps_active
                            THEN pc_up' = "tref" /\ up' = u
                          ELSE /\ up' = UpCompose(u, h, tl)
                               /\ pc_up' = IF nb > 0 THEN "filter" ELSE "rep"
    /\ UNCHANGED <<conf, fuel, sigVars, measVars, repVars, gpsShared,
                   mainVars, downVars, gpsVars, validVars, envVars>>

(* the copy of the time reference under mx_timeref (1596-1599) *)
UpTref ==
    /\ Running /\ pc_up = "tref"
    /\ CritSec("up", "mx_timeref")
    /\ \E h \in conf.tok_bytes, tl \in conf.tok_bytes :
         up' = UpCompose([up EXCEPT !.ref_ok = gps_ref_valid], h, tl)
    /\ pc_up' = "filter"
    /\ UNCHANGED <<proc, conf, fuel, sigVars, mx, measVars, repVars,
                   gpsShared, mainVars, downVars, gpsVars, validVars, hist,
                   envVars>>

(* after the last packet (1892-1909): the array is closed, or the        *)
(* datagram dropped, and the next suspension point                       *)
UpCloseAlwaysSend(u) ==
    IF u.send_report
      THEN [pc |-> "rep",
            up |-> [u EXCEPT !.buff_index =
                               IF Len(u.rxpk) = 0 THEN @ - 8 ELSE @ + 2]]
      ELSE IF NextLive(0) < conf.serv_count
        THEN [pc |-> "send",
              up |-> [u EXCEPT !.buff_index = @ + 2, !.ic = NextLive(0)]]
        ELSE [pc |-> "head", up |-> InitUp]
UpClose(u) ==
    IF Len(u.rxpk) = 0
      THEN IF u.send_report
             THEN [pc |-> "rep", up |-> [u EXCEPT !.buff_index = @ - 8]]
             ELSE [pc |-> "head", up |-> InitUp]
      ELSE IF u.send_report
             THEN [pc |-> "rep", up |-> [u EXCEPT !.buff_index = @ + 2]]
             ELSE IF NextLive(0) < conf.serv_count
               THEN [pc |-> "send",
                     up |-> [u EXCEPT !.buff_index = @ + 2,
                                      !.ic = NextLive(0)]]
               ELSE [pc |-> "head", up |-> InitUp]

(* the serializer ends the process on a packet whose modulation is      *)
(* neither LoRa nor FSK (1753, 1847, 1858-1860); a packet record without *)
(* the field is a LoRa packet                                            *)
Serializable(pkt) ==
    Has(pkt, "modulation") => pkt.modulation \in {"MOD_LORA", "MOD_FSK"}

(* one packet: the filter under mx_meas_up (1644-1676) and, if it        *)
(* passes, its serialization (1679-1889); lgw_cnt2utc (1700) is called   *)
(* when the reference copied for the batch was valid, and may fail       *)
UpFilter ==
    /\ Running /\ pc_up = "filter"
    /\ CritSec("up", "mx_meas_up")
    /\ \E conv_ok \in IF conf.gps_active /\ up.ref_ok
                         THEN conf.cnt2utc_ok ELSE {TRUE} :
       LET pkt == up.rxpkt[up.i + 1]
           r == FilterPkt(meas_up, pkt)
           obj == SerializePkt(pkt, up.ref_ok /\ conv_ok)
           u == [up EXCEPT
                   !.i = @ + 1,
                   !.rxpk = IF r.fwd THEN Append(@, obj) ELSE @,
                   !.buff_index =
                      IF r.fwd
                        THEN @ + (IF Len(up.rxpk) = 0 THEN 1 ELSE 2)
                               + RxpkLen(obj) + 2
                        ELSE @]
           nxt == IF u.i < u.nb_pkt THEN [pc |-> "filter", up |-> u]
                                    ELSE UpClose(u)
       IN  /\ meas_up' = r.meas
           /\ IF r.fwd /\ ~Serializable(pkt)
                THEN /\ proc' = "exit_failure"
                     /\ pc_up' = "aborted" /\ up' = InitUp
                     /\ hist' = [hist EXCEPT
                                   !.seen[pkt.status] = @ + 1,
                                   !.tot_up = Applied(@, meas_up, meas_up')]
                ELSE /\ proc' = proc
                     /\ pc_up' = nxt.pc
                     /\ up' = nxt.up
                     /\ hist' = [hist EXCEPT
                                   !.seen[pkt.status] = @ + 1,
                                   !.n_rxpk = IF r.fwd THEN @ + 1 ELSE @,
                                   !.rxpk_bytes =
                                      IF r.fwd THEN @ + pkt.size ELSE @,
                                   !.tot_up = Applied(@, meas_up, meas_up')]
    /\ UNCHANGED <<conf, fuel, sigVars, mx, meas_dw, repVars,
                   gpsShared, mainVars, downVars, gpsVars, validVars,
                   envVars>>

(* a copy of the report that leaves report_ready as it is *)
UpReportKeepFlag ==
    /\ Running /\ pc_up = "rep"
    /\ CritSec("up", "mx_stat_rep")
    /\ LET u == [up EXCEPT !.stat = status_report,
                           !.buff_index = @ + ReportLen(status_report) + 1,
                           !.ic = NextLive(0)]
       IN  IF NextLive(0) < conf.serv_count
             THEN pc_up' = "send" /\ up' = u
             ELSE pc_up' = "head" /\ up' = InitUp
    /\ hist' = [hist EXCEPT !.rep_sent = @ + 1, !.rep_id = hist.reports]
    /\ UNCHANGED <<proc, conf, fuel, sigVars, mx, measVars, repVars,
                   gpsShared, mainVars, downVars, gpsVars, validVars,
                   envVars>>

(* the status report is taken under mx_stat_rep (1913-1916) and the      *)
(* datagram closed (1926-1928)                                           *)
UpReport ==
    /\ Running /\ pc_up = "rep"
    /\ CritSec("up", "mx_stat_rep")
    /\ report_ready' = FALSE
    /\ LET u == [up EXCEPT !.stat = status_report,
                           !.buff_index = @ + ReportLen(status_report) + 1,
                           !.ic = NextLive(0)]
       IN  IF NextLive(0) < conf.serv_count
             THEN pc_up' = "send" /\ up' = u
             ELSE pc_up' = "head" /\ up' = InitUp
    /\ hist' = [hist EXCEPT !.rep_sent = @ + 1, !.rep_id = hist.reports]
    /\ UNCHANGED <<proc, conf, fuel, sigVars, mx, measVars, status_report,
                   gpsShared, mainVars, downVars, gpsVars, validVars,
                   envVars>>

(* send to server up.ic (1937), then mx_meas_up is taken and the         *)
(* datagram counted (1939-1941)                                          *)
UpSendLock ==
    /\ Running /\ pc_up = "send"
    /\ Acquire("up", "mx_meas_up")
    /\ meas_up' = [meas_up EXCEPT
                     !.up_dgram_sent = Add32(@, 1),
                     !.up_network_byte = Add32(@, up.buff_index)]
    /\ up' = [up EXCEPT !.i = 0]
    /\ pc_up' = "ack"
    /\ hist' = [hist EXCEPT !.n_push = @ + 1,
                            !.tot_up = Applied(@, meas_up, meas_up')]
    /\ UNCHANGED <<proc, conf, fuel, sigVars, meas_dw, repVars, gpsShared,
                   mainVars, downVars, gpsVars, validVars, envVars>>

(* one recv of the acknowledgement wait (1944-1964), mx_meas_up held;    *)
(* when the loop ends the mutex is released (1966) and the next live     *)
(* server, if any, is served                                             *)
UpRecv ==
    /\ Running /\ pc_up = "ack"
    /\ \E a \in UpDatagrams :
         LET r == AckStep(up.i, up, a)
             over == r.brk \/ r.i >= ACK_ATTEMPTS
             nic == NextLive(up.ic + 1)
         IN  /\ meas_up' = IF r.acked
                             THEN [meas_up EXCEPT !.up_ack_rcv = Add32(@, 1)]
                             ELSE meas_up
             /\ IF ~over
                  THEN /\ up' = [up EXCEPT !.i = r.i]
                       /\ UNCHANGED <<pc_up, mx>>
                  ELSE /\ Release("up", "mx_meas_up")
                       /\ IF nic < conf.serv_count
                            THEN pc_up' = "send"
                                 /\ up' = [up EXCEPT !.ic = nic, !.i = 0]
                            ELSE pc_up' = "head" /\ up' = InitUp
             /\ hist' = [hist EXCEPT
                           !.rx = IF Malformed(a.len, a.ver)
                                    THEN "malformed" ELSE "other",
                           !.ack_rx = AckKind(up, a),
                           !.tot_up = Applied(@, meas_up, meas_up')]
    /\ UNCHANGED <<proc, conf, fuel, sigVars, meas_dw, repVars, gpsShared,
                   mainVars, downVars, gpsVars, validVars, envVars>>

Up ==
    \/ UpFetchLock \/ UpFetch \/ UpFilter \/ UpReport \/ UpSendLock
    \/ UpRecv

(* ------------------------------------------------------------------ *)
(* thread_gps (lines 2527-2616)                                         *)
(* ------------------------------------------------------------------ *)
GpsReadThisSecond ==
    /\ Running /\ pc_gps = "head"
    /\ IF gps.cancel_req
         THEN /\ pc_gps' = "cancelled"
              /\ UNCHANGED <<fuel, gps, beacon_next_pps>>
         ELSE IF exit_sig \/ quit_sig
         THEN /\ pc_gps' = "done"
              /\ UNCHANGED <<fuel, gps, beacon_next_pps>>
         ELSE /\ fuel.gps > 0
              /\ fuel' = [fuel EXCEPT !.gps = @ - 1]
              /\ \E rmc \in BOOLEAN :
                   IF rmc
                     THEN /\ gps' = [gps EXCEPT !.utc_sec = now]
                          /\ beacon_next_pps' =
                               IF conf.beacon_period > 0
                                 THEN now % conf.beacon_period
                                        = conf.beacon_offset
                                 ELSE beacon_next_pps
                          /\ pc_gps' = "trig_lock"
                     ELSE UNCHANGED <<pc_gps, gps, beacon_next_pps>>
    /\ UNCHANGED <<proc, conf, sigVars, mx, measVars, repVars,
                   gps_ref_valid, xtal_correct_ok, time_reference_gps,
                   xtal_correct, gps_coord_valid, mainVars, upVars,
                   downVars, validVars, hist, envVars>>

(* read on the GPS serial port returns (2553): nothing usable, or an RMC *)
(* frame with its UTC time; the beacon flag is set or cleared (2574-     *)
(* 2581) and the thread waits for mx_concent                             *)
GpsRead ==
    /\ Running /\ pc_gps = "head"
    /\ IF gps.cancel_req
         THEN /\ pc_gps' = "cancelled"
              /\ UNCHANGED <<fuel, gps, beacon_next_pps, hist>>
         ELSE IF exit_sig \/ quit_sig
         THEN /\ pc_gps' = "done"
              /\ UNCHANGED <<fuel, gps, beacon_next_pps, hist>>
         ELSE /\ fuel.gps > 0
              /\ fuel' = [fuel EXCEPT !.gps = @ - 1]
              /\ \E rmc \in BOOLEAN :
                   IF rmc
                     THEN /\ gps' = [gps EXCEPT !.utc_sec = now]
                          /\ beacon_next_pps' =
                               IF conf.beacon_period > 0
                                 THEN (now + 1) % conf.beacon_period
                                        = conf.beacon_offset
                                 ELSE beacon_next_pps
                          /\ hist' = [hist EXCEPT
                                 !.n_arm = IF beacon_next_pps' THEN @ + 1
                                                               ELSE @,
                                 !.arm_utc = IF beacon_next_pps' THEN now
                                                                 ELSE @]
                          /\ pc_gps' = "trig_lock"
                     ELSE UNCHANGED <<pc_gps, gps, beacon_next_pps, hist>>
    /\ UNCHANGED <<proc, conf, sigVars, mx, measVars, repVars,
                   gps_ref_valid, xtal_correct_ok, time_reference_gps,
                   xtal_correct, gps_coord_valid, mainVars, upVars,
                   downVars, validVars, envVars>>

GpsLockTrig ==
    /\ Running /\ pc_gps = "trig_lock"
    /\ Acquire("gps", "mx_concent")
    /\ pc_gps' = "trig"
    /\ UNCHANGED <<proc, conf, fuel, sigVars, measVars, repVars, gpsShared,
                   mainVars, upVars, downVars, gps, validVars, hist,
                   envVars>>

(* lgw_get_trigcnt returns (2585) and mx_concent is released *)
GpsTrig ==
    /\ Running /\ pc_gps = "trig"
    /\ Release("gps", "mx_concent")
    /\ \E ok \in BOOLEAN :
         IF ok THEN /\ pc_gps' = "sync"
                    /\ gps' = [gps EXCEPT !.trig_tstamp = 0]
               ELSE pc_gps' = "head" /\ UNCHANGED gps
    /\ UNCHANGED <<proc, conf, fuel, sigVars, measVars, repVars, gpsShared,
                   mainVars, upVars, downVars, validVars, hist, envVars>>

(* lgw_gps_sync under mx_timeref (2593-2595) *)
GpsSync ==
    /\ Running /\ pc_gps = "sync"
    /\ CritSec("gps", "mx_timeref")
    /\ \E ok \in BOOLEAN, e \in conf.xtal_errs :
         IF ok
           THEN /\ time_reference_gps' =
                     [systime |-> now, utc |-> gps.utc_sec,
                      count_us |-> gps.trig_tstamp, xtal_err |-> e]
                /\ pc_gps' = "coord"
           ELSE /\ pc_gps' = "head"
                /\ UNCHANGED time_reference_gps
    /\ UNCHANGED <<proc, conf, fuel, sigVars, mx, measVars, repVars,
                   gps_ref_valid, xtal_correct_ok, beacon_next_pps,
                   xtal_correct, gps_coord_valid, mainVars, upVars,
                   downVars, gps, validVars, hist, envVars>>

(* the coordinates under mx_meas_gps (2603-2612) *)
GpsCoord ==
    /\ Running /\ pc_gps = "coord"
    /\ CritSec("gps", "mx_meas_gps")
    /\ \E ok \in BOOLEAN : gps_coord_valid' = ok
    /\ pc_gps' = "head"
    /\ UNCHANGED <<proc, conf, fuel, sigVars, mx, measVars, repVars,
                   gps_ref_valid, xtal_correct_ok, beacon_next_pps,
                   time_reference_gps, xtal_correct, mainVars, upVars,
                   downVars, gps, validVars, hist, envVars>>

Gps == GpsRead \/ GpsLockTrig \/ GpsTrig \/ GpsSync \/ GpsCoord

(* ------------------------------------------------------------------ *)
(* thread_valid (lines 2621-2700); doubles are rationals <<n, d>>      *)
(* ------------------------------------------------------------------ *)
XERR_FILT_COEF == 256
RECURSIVE Gcd(_, _)
Gcd(a, b) == IF b = 0 THEN a ELSE Gcd(b, a % b)
Rat(n, d) == LET g == Gcd(IF n < 0 THEN -n ELSE n, d)
             IN  IF g = 0 THEN <<0, 1>> ELSE <<n \div g, d \div g>>
RatAdd(a, b) == LET g == Gcd(a[2], b[2])
                IN  Rat(a[1] * (b[2] \div g) + b[1] * (a[2] \div g),
                        a[2] * (b[2] \div g))
RatSub(a, b) == RatAdd(a, <<-b[1], b[2]>>)
RatDivInt(a, k) == Rat(a[1], a[2] * k)
RatInv(a) == Rat(a[2], a[1])

(* history of the polls: run counts the consecutive polls that found    *)
(* the reference valid (XERR_INIT_AVG + 2 stands for more), sum adds the *)
(* samples of the first XERR_INIT_AVG of them, last is the latest sample *)
Sampled(x, ok, e) ==
    IF ok
      THEN [run |-> Min(x.run + 1, XERR_INIT_AVG + 2),
            sum |-> IF x.run < XERR_INIT_AVG THEN RatAdd(x.sum, e) ELSE x.sum,
            last |-> e]
      ELSE [run |-> 0, sum |-> <<0, 1>>, last |-> x.last]

(* loop head (2648) and wait_ms(1000) (2649): the wait returns one      *)
(* second or more after the previous one did                             *)
ValidWait ==
    /\ Running /\ pc_valid = "head"
    /\ IF valid.cancel_req
         THEN pc_valid' = "cancelled" /\ UNCHANGED <<fuel, valid>>
         ELSE IF exit_sig \/ quit_sig
         THEN pc_valid' = "done" /\ UNCHANGED <<fuel, valid>>
         ELSE /\ fuel.valid > 0
              /\ now >= valid.wake
              /\ fuel' = [fuel EXCEPT !.valid = @ - 1]
              /\ valid' = [valid EXCEPT !.wake = now + 1]
              /\ pc_valid' = "age"
    /\ UNCHANGED <<proc, conf, sigVars, mx, measVars, repVars, gpsShared,
                   mainVars, upVars, downVars, gpsVars, hist, envVars>>

ValidAgeLate ==
    /\ Running /\ pc_valid = "age"
    /\ CritSec("valid", "mx_timeref")
    /\ LET gps_ref_age == now - time_reference_gps.systime
           ok == (gps_ref_age >= 0) /\ (gps_ref_age <= GPS_REF_MAX_AGE + 1)
           v == [valid EXCEPT
                   !.xtal_err_cpy = IF ok THEN time_reference_gps.xtal_err
                                          ELSE @]
       IN  /\ gps_ref_valid' = ok
           /\ IF ~ok THEN pc_valid' = "xcorr_reset" /\ valid' = v
              ELSE IF v.init_cpt < XERR_INIT_AVG
                THEN /\ pc_valid' = "head"
                     /\ valid' = [v EXCEPT
                                    !.init_acc = RatAdd(@, v.xtal_err_cpy),
                                    !.init_cpt = @ + 1]
              ELSE IF v.init_cpt = XERR_INIT_AVG
                THEN pc_valid' = "xcorr_init" /\ valid' = v
              ELSE pc_valid' = "xcorr_track" /\ valid' = v
           /\ hist' = [hist EXCEPT !.xerr = Sampled(@, ok, v.xtal_err_cpy)]
    /\ UNCHANGED <<proc, conf, fuel, sigVars, mx, measVars, repVars,
                   xtal_correct_ok, beacon_next_pps, time_reference_gps,
                   xtal_correct, gps_coord_valid, mainVars, upVars,
                   downVars, gpsVars, envVars>>

(* the age of the time reference under mx_timeref (2652-2664), then the  *)
(* accumulation of lines 2676-2679                                       *)
ValidAge ==
    /\ Running /\ pc_valid = "age"
    /\ CritSec("valid", "mx_timeref")
    /\ LET gps_ref_age == now - time_reference_gps.systime
           ok == (gps_ref_age >= 0) /\ (gps_ref_age <= GPS_REF_MAX_AGE)
           v == [valid EXCEPT
                   !.xtal_err_cpy = IF ok THEN time_reference_gps.xtal_err
                                          ELSE @]
       IN  /\ gps_ref_valid' = ok
           /\ IF ~ok THEN pc_valid' = "xcorr_reset" /\ valid' = v
              ELSE IF v.init_cpt < XERR_INIT_AVG
                THEN /\ pc_valid' = "head"
                     /\ valid' = [v EXCEPT
                                    !.init_acc = RatAdd(@, v.xtal_err_cpy),
                                    !.init_cpt = @ + 1]
              ELSE IF v.init_cpt = XERR_INIT_AVG
                THEN pc_valid' = "xcorr_init" /\ valid' = v
              ELSE pc_valid' = "xcorr_track" /\ valid' = v
           /\ hist' = [hist EXCEPT !.xerr = Sampled(@, ok, v.xtal_err_cpy)]
    /\ UNCHANGED <<proc, conf, fuel, sigVars, mx, measVars, repVars,
                   xtal_correct_ok, beacon_next_pps, time_reference_gps,
                   xtal_correct, gps_coord_valid, mainVars, upVars,
                   downVars, gpsVars, envVars>>

ValidXcorrResetFlagOnly ==
    /\ Running /\ pc_valid = "xcorr_reset"
    /\ CritSec("valid", "mx_xcorr")
    /\ xtal_correct_ok' = FALSE
    /\ xtal_correct' = xtal_correct
    /\ valid' = [valid EXCEPT !.init_cpt = 0, !.init_acc = <<0, 1>>]
    /\ pc_valid' = "head"
    /\ UNCHANGED <<proc, conf, fuel, sigVars, mx, measVars, repVars,
                   gps_ref_valid, beacon_next_pps, time_reference_gps,
                   gps_coord_valid, mainVars, upVars, downVars, gpsVars,
                   hist, envVars>>

(* the correction is invalidated under mx_xcorr (2667-2674) *)
ValidXcorrReset ==
    /\ Running /\ pc_valid = "xcorr_reset"
    /\ CritSec("valid", "mx_xcorr")
    /\ xtal_correct_ok' = FALSE
    /\ xtal_correct' = <<1, 1>>
    /\ valid' = [valid EXCEPT !.init_cpt = 0, !.init_acc = <<0, 1>>]
    /\ pc_valid' = "head"
    /\ UNCHANGED <<proc, conf, fuel, sigVars, mx, measVars, repVars,
                   gps_ref_valid, beacon_next_pps, time_reference_gps,
                   gps_coord_valid, mainVars, upVars, downVars, gpsVars,
                   hist, envVars>>

ValidXcorrInitOffByOne ==
    /\ Running /\ pc_valid = "xcorr_init"
    /\ CritSec("valid", "mx_xcorr")
    /\ xtal_correct' = RatInv(RatDivInt(valid.init_acc, XERR_INIT_AVG + 1))
    /\ xtal_correct_ok' = TRUE
    /\ valid' = [valid EXCEPT !.init_cpt = @ + 1]
    /\ pc_valid' = "head"
    /\ UNCHANGED <<proc, conf, fuel, sigVars, mx, measVars, repVars,
                   gps_ref_valid, beacon_next_pps, time_reference_gps,
                   gps_coord_valid, mainVars, upVars, downVars, gpsVars,
                   hist, envVars>>

(* the initial average under mx_xcorr (2680-2686) *)
ValidXcorrInit ==
    /\ Running /\ pc_valid = "xcorr_init"
    /\ CritSec("valid", "mx_xcorr")
    /\ xtal_correct' = RatInv(RatDivInt(valid.init_acc, XERR_INIT_AVG))
    /\ xtal_correct_ok' = TRUE
    /\ valid' = [valid EXCEPT !.init_cpt = @ + 1]
    /\ pc_valid' = "head"
    /\ UNCHANGED <<proc, conf, fuel, sigVars, mx, measVars, repVars,
                   gps_ref_valid, beacon_next_pps, time_reference_gps,
                   gps_coord_valid, mainVars, upVars, downVars, gpsVars,
                   hist, envVars>>

(* the low-pass tracking under mx_xcorr (2688-2693) *)
ValidXcorrTrack ==
    /\ Running /\ pc_valid = "xcorr_track"
    /\ CritSec("valid", "mx_xcorr")
    /\ LET x == RatInv(valid.xtal_err_cpy)
       IN  xtal_correct' =
             RatAdd(RatSub(xtal_correct,
                           RatDivInt(xtal_correct, XERR_FILT_COEF)),
                    RatDivInt(x, XERR_FILT_COEF))
    /\ pc_valid' = "head"
    /\ UNCHANGED <<proc, conf, fuel, sigVars, mx, measVars, repVars,
                   gps_ref_valid, xtal_correct_ok, beacon_next_pps,
                   time_reference_gps, gps_coord_valid, mainVars, upVars,
                   downVars, gpsVars, valid, hist, envVars>>

Valid ==
    \/ ValidWait \/ ValidAge \/ ValidXcorrReset \/ ValidXcorrInit
    \/ ValidXcorrTrack

(* the system clock advances *)
Tick ==
    /\ Running
    /\ fuel.tick > 0
    /\ fuel' = [fuel EXCEPT !.tick = @ - 1]
    /\ \E d \in conf.ticks : now' = now + d
    /\ UNCHANGED <<proc, conf, sigVars, mx, measVars, repVars, gpsShared,
                   mainVars, upVars, downVars, gpsVars, validVars, hist,
                   sock_state>>

(* the clock advances while thread_valid keeps its period of one second: *)
(* the poll of the current second is complete and the thread is in its   *)
(* wait_ms(1000) (2649)                                                  *)
TickPolled ==
    /\ pc_valid = "head" /\ valid.wake > now
    /\ Tick

(* ------------------------------------------------------------------ *)
(* Initial states                                                      *)
(* ------------------------------------------------------------------ *)
TxpkBase ==
    [freq |-> 869525000, rfch |-> 0, powe |-> 14, modu |-> "LORA",
     datr |-> [fmt |-> TRUE, sf |-> 9, bw |-> 125], codr |-> "4/5",
     size |-> 1, data |-> <<26, 0, 64, 64>>]
With(t, f, v) == [x \in DOMAIN t \cup {f} |-> IF x = f THEN v ELSE t[x]]
BodyImme == [json |-> "ok", len |-> 9, txpk |-> With(TxpkBase, "imme", TRUE)]
BodyTmst == [json |-> "ok", len |-> 9, txpk |-> With(TxpkBase, "tmst", 5000000)]
BodyTime == [json |-> "ok", len |-> 9,
             txpk |-> With(TxpkBase, "time", [fmt |-> TRUE, sec |-> 10])]
BodyInvalid == [json |-> "invalid", len |-> 2]

InitDn ==
    [token_h |-> 0, token_l |-> 0, req_ack |-> FALSE, autoquit_cnt |-> 0,
     elapsed |-> 0, nrecv |-> 0, msg |-> NoMsg, txpkt |-> ZeroTxpkt,
     sent_immediate |-> FALSE, i |-> 0, field_time |-> 0, payload |-> <<>>,
     beacon_freq_hz |-> 0, tx_status_var |-> "TX_STATUS_UNKNOWN"]

NoTref == [systime |-> 0, utc |-> 0, count_us |-> 0, xtal_err |-> <<1, 1>>]

InitHist(servers) ==
    [sum_up |-> ZeroUp, sum_dw |-> ZeroDw, tot_up |-> ZeroUp,
     tot_dw |-> ZeroDw, reports |-> 0, rep_sent |-> 0, rep_id |-> 0,
     seen |-> [st \in RxStatuses |-> 0],
     n_rxpk |-> 0, rxpk_bytes |-> 0,
     n_push |-> 0, rx |-> "none", rx_err |-> FALSE, ack_rx |-> "none",
     drx |-> [ic \in servers |-> "none"],
     unacked |-> [ic \in servers |-> 0],
     sess_match |-> [ic \in servers |-> 0],
     sess_acks |-> [ic \in servers |-> 0],
     autoquit |-> [ic \in servers |-> FALSE],
     n_send |-> 0, last_tx |-> ZeroTxpkt,
     n_beacon |-> 0, n_arm |-> 0, arm_utc |-> 0,
     last_beacon |-> [field_time |-> 0, freq_hz |-> 0, payload |-> <<>>],
     xerr |-> [run |-> 0, sum |-> <<0, 1>>, last |-> <<1, 1>>],
     disp |-> [shown |-> FALSE, valid |-> FALSE, age |-> 0,
               flag_ref |-> NoTref, age_ref |-> NoTref]]

(* the configuration variables at their defaults (lines 129-236) *)
DefaultConf ==
    [serv_count |-> 1, serv_live |-> [ic \in {0} |-> TRUE],
     keepalive_time |-> DEFAULT_KEEPALIVE, autoquit_threshold |-> 0,
     fwd_valid_pkt |-> TRUE, fwd_error_pkt |-> FALSE, fwd_nocrc_pkt |-> FALSE,
     gps_enabled |-> FALSE, gps_active |-> FALSE, gps_fake_enable |-> FALSE,
     beacon_enabled |-> FALSE, beacon_period |-> 128, beacon_offset |-> 0,
     beacon_freq_hz |-> 0, ref_lat |-> 0, ref_lon |-> 0, junk_bytes |-> {0},
     upstream_enabled |-> TRUE, downstream_enabled |-> TRUE,
     ghoststream_enabled |-> FALSE, radiostream_enabled |-> TRUE,
     statusstream_enabled |-> TRUE,
     resp_bodies |-> {BodyImme}, max_polls |-> 1,
     tok_bytes |-> {0}, resp_vers |-> {PROTOCOL_VERSION, 2},
     dn_acks |-> DownAcks({3, 4}, {PROTOCOL_VERSION, 2}, TokBytes),
     xtal_errs |-> {<<1, 1>>}, ticks |-> {1}, cnt2utc_ok |-> {TRUE},
     setup_fail |-> {0},
     up_acks |-> UpAcks({4}, {PROTOCOL_VERSION}, {PKT_PUSH_ACK}, TokBytes),
     rx_pkts |-> {[status |-> st, size |-> 1, count_us |-> 0] :
                    st \in RxStatuses}]

(* booted: the state in which main enters its statistics loop (line     *)
(* 1306) with configuration c and the iteration budgets f; thread_valid  *)
(* has by then run init_cpt rounds on a valid time reference of crystal  *)
(* error e.  Not booted: the state in which main enters the loop over    *)
(* the servers (line 1142), no thread created yet                        *)
InitState(c, f, init_cpt, e, booted) ==
    /\ proc = "running"
    /\ conf = c
    /\ fuel = f
    /\ exit_sig = FALSE /\ quit_sig = FALSE
    /\ mx = [m \in Mutexes |-> NoOwner]
    /\ meas_up = ZeroUp /\ meas_dw = ZeroDw
    /\ report_ready = FALSE
    /\ status_report = [with_coord |-> FALSE, rxnb |-> 0, rxok |-> 0,
                        rxfw |-> 0, ackr |-> <<0, 0>>, dwnb |-> 0, txnb |-> 0]
    /\ gps_ref_valid = (init_cpt > 0)
    /\ xtal_correct_ok = (init_cpt > XERR_INIT_AVG)
    /\ beacon_next_pps = FALSE
    /\ time_reference_gps =
         [systime |-> IF init_cpt > 0 THEN BootTime ELSE 0,
          utc |-> IF init_cpt > 0 THEN BootTime ELSE 0,
          count_us |-> 0, xtal_err |-> e]
    /\ xtal_correct = IF init_cpt > XERR_INIT_AVG THEN RatInv(e) ELSE <<1, 1>>
    /\ gps_coord_valid = FALSE
    /\ sock_state = [ic \in 0..(c.serv_count - 1) |->
                       IF ~booted THEN "unset"
                       ELSE IF c.serv_live[ic] THEN "connected" ELSE "none"]
    /\ pc_main = (IF booted THEN "loop" ELSE "setup")
    /\ cp_up = ZeroUp /\ cp_dw = ZeroDw
    /\ coord_ok = FALSE
    /\ pc_up = IF booted /\ c.upstream_enabled THEN "head" ELSE "off"
    /\ up = InitUp
    /\ pc_down = [ic \in 0..(c.serv_count - 1) |->
                    IF booted /\ c.downstream_enabled /\ c.serv_live[ic]
                      THEN "head" ELSE "off"]
    /\ dn = [ic \in 0..(c.serv_count - 1) |->
               [InitDn EXCEPT !.payload = BeaconInit(c)]]
    /\ pc_gps = IF booted /\ c.gps_active THEN "head" ELSE "off"
    /\ gps = [cancel_req |-> FALSE, utc_sec |-> 0, trig_tstamp |-> 0]
    /\ pc_valid = IF booted /\ c.gps_active THEN "head" ELSE "off"
    /\ valid = [cancel_req |-> FALSE,
                init_cpt |-> init_cpt,
                init_acc |-> Rat(Min(init_cpt, XERR_INIT_AVG) * e[1], e[2]),
                xtal_err_cpy |-> e,
                wake |-> BootTime]
    /\ hist = [InitHist(0..(c.serv_count - 1)) EXCEPT
                 !.xerr = [run |-> init_cpt,
                           sum |-> Rat(Min(init_cpt, XERR_INIT_AVG) * e[1],
                                       e[2]),
                           last |-> e]]
    /\ now = BootTime

InitAt(c, f, init_cpt, e) == InitState(c, f, init_cpt, e, TRUE)

InitWith(c, f, init_cpt) == InitAt(c, f, init_cpt, <<1, 1>>)

(* ------------------------------------------------------------------ *)
(* SpecDown: the downstream threads and the statistics loop, GPS off    *)
(* ------------------------------------------------------------------ *)
DownConfs ==
    {[DefaultConf EXCEPT !.upstream_enabled = FALSE,
                         !.autoquit_threshold = th,
                         !.resp_bodies = {BodyInvalid}] :
        th \in 0..MaxThreshold}

InitDown ==
    \E c \in DownConfs :
      InitWith(c, [main |-> MaxStats, up |-> 0, gps |-> 0, valid |-> 0,
                   tick |-> 0,
                   down |-> [ic \in 0..(c.serv_count - 1) |-> MaxPulls]],
               0)

NextDown ==
    \/ MainStats \/ MainRender \/ MainEnd
    \/ DownPull

SpecDown == InitDown /\ [][NextDown]_vars

(* ------------------------------------------------------------------ *)
(* SpecFilter: one round of thread_up under every setting of the three  *)
(* filter flags, with the statistics loop                               *)
(* ------------------------------------------------------------------ *)
FilterConfs ==
    {[DefaultConf EXCEPT !.downstream_enabled = FALSE,
                         !.fwd_valid_pkt = v, !.fwd_error_pkt = e,
                         !.fwd_nocrc_pkt = n,
                         !.up_acks = UpAcks({4}, {PROTOCOL_VERSION},
                                            {PKT_PUSH_ACK}, {0})] :
        v \in BOOLEAN, e \in BOOLEAN, n \in BOOLEAN}

InitFilter ==
    \E c \in FilterConfs :
      InitWith(c, [main |-> MaxStats, up |-> MaxRounds, gps |-> 0,
                   valid |-> 0, tick |-> 0,
                   down |-> [ic \in 0..(c.serv_count - 1) |-> 0]],
               0)

NextFilter == MainStats \/ MainRender \/ Up

SpecFilter == InitFilter /\ [][NextFilter]_vars

(* ------------------------------------------------------------------ *)
(* SpecAck: thread_up and its acknowledgement wait, with the            *)
(* statistics loop                                                      *)
(* ------------------------------------------------------------------ *)
AckConfs ==
    {[DefaultConf EXCEPT !.downstream_enabled = FALSE,
                         !.rx_pkts = {[status |-> STAT_CRC_OK, size |-> 1,
                                       count_us |-> 0]},
                         !.up_acks = UpAcks({3, 4}, {PROTOCOL_VERSION, 2},
                                            {PKT_PUSH_ACK, PKT_PULL_ACK},
                                            TokBytes)]}

InitAck ==
    \E c \in AckConfs :
      InitWith(c, [main |-> MaxStats, up |-> MaxFetch, gps |-> 0,
                   valid |-> 0, tick |-> 0,
                   down |-> [ic \in 0..(c.serv_count - 1) |-> 0]],
               0)

NextAck == MainStats \/ MainRender \/ Up

SpecAck == InitAck /\ [][NextAck]_vars

(* ------------------------------------------------------------------ *)
(* SpecRadio: the four users of the concentrator (main, thread_up,      *)
(* thread_down with its beacon, thread_gps), GPS reference valid,       *)
(* crystal correction available, no packet on the air                   *)
(* ------------------------------------------------------------------ *)
GpsConf ==
    [DefaultConf EXCEPT
       !.gps_enabled = TRUE, !.gps_active = TRUE, !.beacon_enabled = TRUE,
       !.beacon_offset = (BootTime + 1) % 128,
       !.beacon_freq_hz = 869525000,
       !.statusstream_enabled = FALSE,
       !.rx_pkts = {},
       !.resp_bodies = {BodyImme}, !.resp_vers = {PROTOCOL_VERSION},
       !.dn_acks = DownAcks({4}, {PROTOCOL_VERSION}, {0}),
       !.up_acks = UpAcks({4}, {PROTOCOL_VERSION}, {PKT_PUSH_ACK}, {0})]

InitRadio ==
    InitWith(GpsConf,
             [main |-> MaxLoop, up |-> MaxLoop, gps |-> MaxLoop,
              valid |-> 0, tick |-> 0,
              down |-> [ic \in 0..(GpsConf.serv_count - 1) |-> MaxLoop]],
             XERR_INIT_AVG + 1)

NextRadio ==
    \/ MainStats \/ MainCopyGps \/ MainDisplay
    \/ UpFetchLock \/ UpFetch
    \/ DownPull \/ DownTx \/ DownBeacon
    \/ Gps

SpecRadio == InitRadio /\ [][NextRadio]_vars

(* ------------------------------------------------------------------ *)
(* SpecTref: the writer of the time reference (thread_gps), the         *)
(* validator and the display of the statistics loop, with the clock     *)
(* advancing; no reference has been acquired at start                    *)
(* ------------------------------------------------------------------ *)
TrefConf ==
    [DefaultConf EXCEPT
       !.gps_enabled = TRUE, !.gps_active = TRUE,
       !.upstream_enabled = FALSE, !.downstream_enabled = FALSE,
       !.statusstream_enabled = FALSE]

InitTref ==
    InitWith(TrefConf,
             [main |-> MaxLoop, up |-> 0, gps |-> MaxSync, valid |-> MaxSync,
              tick |-> MaxSync,
              down |-> [ic \in 0..(TrefConf.serv_count - 1) |-> 0]],
             0)

NextTref ==
    \/ MainStats \/ MainCopyGps \/ MainDisplay
    \/ Gps
    \/ ValidWait \/ ValidAge \/ ValidXcorrReset
    \/ Tick

SpecTref == InitTref /\ [][NextTref]_vars

(* ------------------------------------------------------------------ *)
(* SpecAge: thread_valid polling once per second while the clock runs   *)
(* past the maximum age of the time reference; the crystal correction   *)
(* is about to become valid or is valid at start, and thread_gps may    *)
(* synchronise once more                                                 *)
(* ------------------------------------------------------------------ *)
AgeConf ==
    [DefaultConf EXCEPT
       !.gps_enabled = TRUE, !.gps_active = TRUE,
       !.upstream_enabled = FALSE, !.downstream_enabled = FALSE,
       !.statusstream_enabled = FALSE,
       !.xtal_errs = {<<2, 1>>}]

InitAge ==
    \E n \in {XERR_INIT_AVG - 1, XERR_INIT_AVG + 1} :
      InitAt(AgeConf,
             [main |-> 0, up |-> 0, gps |-> MaxLoop, valid |-> MaxAge,
              tick |-> MaxAge,
              down |-> [ic \in 0..(AgeConf.serv_count - 1) |-> 0]],
             n, <<2, 1>>)

NextAge == Gps \/ Valid \/ TickPolled

SpecAge == InitAge /\ [][NextAge]_vars

(* ------------------------------------------------------------------ *)
(* SpecXerr: thread_valid from the start of the accumulation or two     *)
(* samples before its end, thread_gps synchronising with a crystal      *)
(* error of 1 or 2, the clock advancing by one second or past the maximum    *)
(* age of the reference                                                  *)
(* ------------------------------------------------------------------ *)
XerrConf ==
    [DefaultConf EXCEPT
       !.gps_enabled = TRUE, !.gps_active = TRUE,
       !.upstream_enabled = FALSE, !.downstream_enabled = FALSE,
       !.statusstream_enabled = FALSE,
       !.xtal_errs = {<<1, 1>>, <<2, 1>>},
       !.ticks = {1, GPS_REF_MAX_AGE + 1}]

InitXerr ==
    \E n \in {0, XERR_INIT_AVG - 2} :
      InitAt(XerrConf,
             [main |-> 0, up |-> 0, gps |-> MaxLoop, valid |-> MaxPolls,
              tick |-> MaxPolls,
              down |-> [ic \in 0..(XerrConf.serv_count - 1) |-> 0]],
             n, <<1, 1>>)

NextXerr == Gps \/ Valid \/ Tick

SpecXerr == InitXerr /\ [][NextXerr]_vars

(* ------------------------------------------------------------------ *)
(* SpecBeacon: thread_down sending beacons every second second while    *)
(* thread_gps synchronises and the clock advances; time reference and   *)
(* crystal correction valid; the server sends nothing of use            *)
(* ------------------------------------------------------------------ *)
BeaconConfs ==
    {[DefaultConf EXCEPT
        !.gps_enabled = TRUE, !.gps_active = TRUE, !.beacon_enabled = TRUE,
        !.beacon_period = 2, !.beacon_offset = (BootTime + 1) % 2,
        !.beacon_freq_hz = 869525000,
        !.ref_lat = pos[1], !.ref_lon = pos[2],
        !.junk_bytes = {0, 165},
        !.upstream_enabled = FALSE, !.statusstream_enabled = FALSE,
        !.resp_bodies = {}, !.dn_acks = {}] :
       pos \in {<<45, -90>>}}

InitBeacon ==
    \E c \in BeaconConfs :
      InitWith(c, [main |-> 0, up |-> 0, gps |-> MaxSync, valid |-> 0,
                   tick |-> MaxSync,
                   down |-> [ic \in 0..(c.serv_count - 1) |-> MaxLoop]],
               XERR_INIT_AVG + 1)

NextBeacon ==
    \/ \E ic \in LiveServers : DownHead(ic)
    \/ \E ic \in LiveServers : DownPullCnt(ic)
    \/ \E ic \in LiveServers : DownRecv(ic)
    \/ DownBeacon
    \/ Gps
    \/ Tick

SpecBeacon == InitBeacon /\ [][NextBeacon]_vars

(* ------------------------------------------------------------------ *)
(* SpecArm: thread_gps arming the beacon for periods of 0, 2 and 3      *)
(* seconds and offsets of 0 and 1, thread_down sending it, the clock    *)
(* advancing                                                             *)
(* ------------------------------------------------------------------ *)
ArmConfs ==
    {[DefaultConf EXCEPT
        !.gps_enabled = TRUE, !.gps_active = TRUE, !.beacon_enabled = TRUE,
        !.beacon_period = per, !.beacon_offset = off,
        !.beacon_freq_hz = 869525000,
        !.upstream_enabled = FALSE, !.statusstream_enabled = FALSE,
        !.resp_bodies = {}, !.dn_acks = {}] :
       per \in {0, 2, 3}, off \in {0, 1}}

InitArm ==
    \E c \in ArmConfs :
      InitWith(c, [main |-> 0, up |-> 0, gps |-> MaxSync, valid |-> 0,
                   tick |-> MaxSync,
                   down |-> [ic \in 0..(c.serv_count - 1) |-> MaxLoop]],
               XERR_INIT_AVG + 1)

NextArm ==
    \/ \E ic \in LiveServers : DownHead(ic)
    \/ \E ic \in LiveServers : DownPullCnt(ic)
    \/ \E ic \in LiveServers : DownRecv(ic)
    \/ DownBeacon
    \/ Gps
    \/ Tick

SpecArm == InitArm /\ [][NextArm]_vars

(* ------------------------------------------------------------------ *)
(* SpecEmit: one or two downstream threads meeting the beacon flag with *)
(* the time reference and the crystal correction both valid or both     *)
(* invalid, thread_gps arming the flag every second second (twice for   *)
(* one thread, once for two)                                            *)
(* ------------------------------------------------------------------ *)
EmitConfs ==
    {[DefaultConf EXCEPT
        !.serv_count = n, !.serv_live = [ic \in 0..(n - 1) |-> TRUE],
        !.gps_enabled = TRUE, !.gps_active = TRUE, !.beacon_enabled = TRUE,
        !.beacon_period = 2, !.beacon_offset = (BootTime + 1) % 2,
        !.beacon_freq_hz = 869525000,
        !.upstream_enabled = FALSE, !.statusstream_enabled = FALSE,
        !.resp_bodies = {}, !.dn_acks = {}] :
       n \in 1..2}

InitEmit ==
    \E c \in EmitConfs, init_cpt \in {0, XERR_INIT_AVG + 1} :
      InitWith(c, [main |-> 0, up |-> 0,
                   gps |-> IF c.serv_count = 1 THEN MaxSync ELSE MaxLoop,
                   valid |-> 0, tick |-> MaxLoop,
                   down |-> [ic \in 0..(c.serv_count - 1) |-> MaxLoop]],
               init_cpt)

NextEmit ==
    \/ \E ic \in LiveServers : DownHead(ic)
    \/ \E ic \in LiveServers : DownPullCnt(ic)
    \/ \E ic \in LiveServers : DownRecv(ic)
    \/ DownBeacon
    \/ Gps
    \/ Tick

SpecEmit == InitEmit /\ [][NextEmit]_vars

(* ------------------------------------------------------------------ *)
(* SpecSize: thread_down receiving immediate PULL_RESP datagrams whose  *)
(* "data" decodes to zero to four bytes and whose "size" is 0 to 4 or   *)
(* 65536 plus that                                                       *)
(* ------------------------------------------------------------------ *)
SizeData ==
    {<<>>, <<26, 0, 64, 64>>, <<26, 6, 36, 64>>, <<26, 6, 37, 44>>,
     <<26, 6, 37, 44>> \o <<27, 0, 64, 64>>}
SizeBodies ==
    {[json |-> "ok", len |-> 9,
      txpk |-> With(With(With(TxpkBase, "imme", TRUE), "data", d),
                    "size", sz)] :
       d \in SizeData, sz \in 0..4 \cup {65536 + 1}}

SizeConf ==
    [DefaultConf EXCEPT
       !.upstream_enabled = FALSE, !.statusstream_enabled = FALSE,
       !.resp_bodies = SizeBodies, !.resp_vers = {PROTOCOL_VERSION},
       !.dn_acks = {}]

InitSize ==
    InitWith(SizeConf,
             [main |-> 0, up |-> 0, gps |-> 0, valid |-> 0, tick |-> 0,
              down |-> [ic \in {0} |-> MaxPulls]],
             0)

NextSize ==
    \/ \E ic \in LiveServers : DownHead(ic)
    \/ \E ic \in LiveServers : DownPullCnt(ic)
    \/ \E ic \in LiveServers : DownRecv(ic)
    \/ DownTx

SpecSize == InitSize /\ [][NextSize]_vars

(* ------------------------------------------------------------------ *)
(* SpecOff: the configuration leaves the beacon disabled ("beacon"      *)
(* false or absent, lines 228 and 907-911); GPS active or not, period   *)
(* 0, 2 or the default, thread_gps, thread_down and the clock            *)
(* ------------------------------------------------------------------ *)
OffConfs ==
    {[DefaultConf EXCEPT
        !.gps_enabled = g, !.gps_active = g,
        !.beacon_enabled = FALSE,
        !.beacon_period = per, !.beacon_offset = (BootTime + 1) % 2,
        !.beacon_freq_hz = 869525000,
        !.upstream_enabled = FALSE, !.statusstream_enabled = FALSE,
        !.resp_bodies = {}, !.dn_acks = {}] :
       g \in BOOLEAN, per \in {0, 2, 128}}

InitOff ==
    \E c \in OffConfs :
      InitWith(c, [main |-> 0, up |-> 0,
                   gps |-> IF c.gps_active THEN MaxSync ELSE 0,
                   valid |-> 0, tick |-> MaxLoop,
                   down |-> [ic \in 0..(c.serv_count - 1) |-> MaxLoop]],
               XERR_INIT_AVG + 1)

NextOff ==
    \/ \E ic \in LiveServers : DownHead(ic)
    \/ \E ic \in LiveServers : DownPullCnt(ic)
    \/ \E ic \in LiveServers : DownRecv(ic)
    \/ DownBeacon
    \/ Gps
    \/ Tick

SpecOff == InitOff /\ [][NextOff]_vars

(* ------------------------------------------------------------------ *)
(* SpecMode: thread_down receiving PULL_RESP datagrams with every        *)
(* combination of the timing fields imme, tmst and time, with GPS        *)
(* active or not and the time reference valid or not                     *)
(* ------------------------------------------------------------------ *)
TimeField == [fmt |-> TRUE, sec |-> BootTime + 1]
ModeBodies ==
    {[json |-> "ok", len |-> 9, txpk |-> t] :
       t \in {TxpkBase,
              With(TxpkBase, "imme", FALSE),
              With(TxpkBase, "tmst", 5000000),
              With(TxpkBase, "time", TimeField),
              With(With(TxpkBase, "imme", FALSE), "tmst", 5000000),
              With(With(TxpkBase, "imme", FALSE), "time", TimeField),
              With(With(With(TxpkBase, "imme", TRUE), "tmst", 5000000),
                   "time", TimeField),
              With(With(TxpkBase, "tmst", 5000000), "time", TimeField)}}

ModeConfs ==
    {[DefaultConf EXCEPT
        !.gps_enabled = g, !.gps_active = g,
        !.upstream_enabled = FALSE, !.statusstream_enabled = FALSE,
        !.resp_bodies = ModeBodies, !.resp_vers = {PROTOCOL_VERSION},
        !.dn_acks = {}] :
       g \in BOOLEAN}

InitMode ==
    \E c \in ModeConfs, init_cpt \in {0, XERR_INIT_AVG + 1} :
      InitWith(c, [main |-> 0, up |-> 0, gps |-> 0, valid |-> 0,
                   tick |-> 0,
                   down |-> [ic \in 0..(c.serv_count - 1) |-> MaxLoop]],
               init_cpt)

NextMode ==
    \/ \E ic \in LiveServers : DownHead(ic)
    \/ \E ic \in LiveServers : DownPullCnt(ic)
    \/ \E ic \in LiveServers : DownRecv(ic)
    \/ DownTime
    \/ DownTx

SpecMode == InitMode /\ [][NextMode]_vars

(* ------------------------------------------------------------------ *)
(* SpecParse: thread_down receiving PULL_RESP datagrams that fail at    *)
(* every test of the parser, and two that pass; GPS active with a       *)
(* valid time reference                                                  *)
(* ------------------------------------------------------------------ *)
Without(t, f) == [x \in DOMAIN t \ {f} |-> t[x]]
TxpkLora == With(TxpkBase, "imme", TRUE)
TxpkFsk ==
    [imme |-> TRUE, freq |-> 869525000, rfch |-> 0, powe |-> 14,
     modu |-> "FSK", datr |-> 50000, fdev |-> 25000, size |-> 1,
     data |-> <<26, 0, 64, 64>>]
BadLora ==
    {TxpkBase, With(TxpkBase, "imme", FALSE)}
    \cup {Without(TxpkLora, f) :
            f \in {"freq", "rfch", "modu", "datr", "codr", "size", "data"}}
    \cup {With(TxpkLora, "modu", "GFSK"),
          With(TxpkLora, "codr", "4/9"),
          With(TxpkLora, "datr", [fmt |-> FALSE, sf |-> 9, bw |-> 125]),
          With(TxpkLora, "datr", [fmt |-> TRUE, sf |-> 13, bw |-> 125]),
          With(TxpkLora, "datr", [fmt |-> TRUE, sf |-> 9, bw |-> 100]),
          With(Without(TxpkBase, "size"), "time", TimeField),
          With(TxpkBase, "time", [fmt |-> FALSE, sec |-> 0])}
BadFsk ==
    {Without(TxpkFsk, f) :
       f \in {"imme", "freq", "rfch", "modu", "datr", "fdev", "size", "data"}}
(* the datagrams of one modulation: LoRa carries datr as "SFnBWm", FSK  *)
(* as a number                                                           *)
ParseBodies(fsk) ==
    {BodyInvalid, [json |-> "no_txpk", len |-> 2]}
    \cup {[json |-> "ok", len |-> 9, txpk |-> t] :
            t \in IF fsk THEN BadFsk \cup {TxpkFsk}
                         ELSE BadLora \cup {TxpkLora}}

ParseConf(fsk) ==
    [DefaultConf EXCEPT
       !.gps_enabled = TRUE, !.gps_active = TRUE,
       !.upstream_enabled = FALSE, !.statusstream_enabled = FALSE,
       !.resp_bodies = ParseBodies(fsk), !.resp_vers = {PROTOCOL_VERSION},
       !.dn_acks = {}]

InitParse ==
    \E fsk \in BOOLEAN :
      InitWith(ParseConf(fsk),
               [main |-> 0, up |-> 0, gps |-> 0, valid |-> 0, tick |-> 0,
                down |-> [ic \in {0} |-> MaxPulls]],
               XERR_INIT_AVG + 1)

NextParse ==
    \/ \E ic \in LiveServers : DownHead(ic)
    \/ \E ic \in LiveServers : DownPullCnt(ic)
    \/ \E ic \in LiveServers : DownRecv(ic)
    \/ DownTime
    \/ DownTx

SpecParse == InitParse /\ [][NextParse]_vars

(* ------------------------------------------------------------------ *)
(* SpecPrea: a downstream thread receiving immediate-mode PULL_RESP      *)
(* datagrams, LoRa or FSK, without "prea" or with a value around the    *)
(* minimum, negative, or at and above 2^16                               *)
(* ------------------------------------------------------------------ *)
PreaValues ==
    {-1, 0, MIN_FSK_PREAMB - 1, MIN_FSK_PREAMB, MIN_LORA_PREAMB - 1,
     MIN_LORA_PREAMB, 65535, 65536, 65536 + MIN_FSK_PREAMB,
     65536 + MIN_LORA_PREAMB}
PreaBodies(fsk) ==
    LET base == IF fsk THEN TxpkFsk ELSE TxpkLora
    IN  {[json |-> "ok", len |-> 9, txpk |-> t] :
           t \in {base} \cup {With(base, "prea", v) : v \in PreaValues}}

PreaConf(fsk) ==
    [DefaultConf EXCEPT
       !.upstream_enabled = FALSE, !.statusstream_enabled = FALSE,
       !.resp_bodies = PreaBodies(fsk), !.resp_vers = {PROTOCOL_VERSION},
       !.dn_acks = {}]

InitPrea ==
    \E fsk \in BOOLEAN :
      InitWith(PreaConf(fsk),
               [main |-> 0, up |-> 0, gps |-> 0, valid |-> 0, tick |-> 0,
                down |-> [ic \in {0} |-> MaxPulls]],
               0)

NextPrea ==
    \/ \E ic \in LiveServers : DownHead(ic)
    \/ \E ic \in LiveServers : DownPullCnt(ic)
    \/ \E ic \in LiveServers : DownRecv(ic)
    \/ DownTx

SpecPrea == InitPrea /\ [][NextPrea]_vars

(* ------------------------------------------------------------------ *)
(* SpecSend: two downstream threads transmitting what their servers     *)
(* send while the statistics loop takes its snapshots                   *)
(* ------------------------------------------------------------------ *)
SendConf ==
    [DefaultConf EXCEPT
       !.serv_count = 2, !.serv_live = [ic \in 0..1 |-> TRUE],
       !.upstream_enabled = FALSE, !.statusstream_enabled = FALSE,
       !.resp_bodies = {BodyImme, BodyInvalid},
       !.resp_vers = {PROTOCOL_VERSION},
       !.dn_acks = {}]

InitSend ==
    InitWith(SendConf,
             [main |-> MaxStats, up |-> 0, gps |-> 0, valid |-> 0,
              tick |-> 0, down |-> [ic \in 0..1 |-> MaxLoop]],
             0)

NextSend ==
    \/ MainStats
    \/ \E ic \in LiveServers : DownHead(ic)
    \/ \E ic \in LiveServers : DownPullCnt(ic)
    \/ \E ic \in LiveServers : DownRecv(ic)
    \/ DownTx

SpecSend == InitSend /\ [][NextSend]_vars

(* ------------------------------------------------------------------ *)
(* SpecTime: thread_up serializing packets with GPS active or not, the  *)
(* time reference valid or not, and lgw_cnt2utc succeeding or failing   *)
(* ------------------------------------------------------------------ *)
TimeConfs ==
    {[DefaultConf EXCEPT
        !.gps_enabled = g, !.gps_active = g,
        !.downstream_enabled = FALSE, !.statusstream_enabled = FALSE,
        !.cnt2utc_ok = BOOLEAN,
        !.rx_pkts = {[status |-> STAT_CRC_OK, size |-> 1, count_us |-> 0]},
        !.up_acks = UpAcks({4}, {PROTOCOL_VERSION}, {PKT_PUSH_ACK}, {0})] :
       g \in BOOLEAN}

InitTime ==
    \E c \in TimeConfs, init_cpt \in {0, XERR_INIT_AVG + 1} :
      InitWith(c, [main |-> 0, up |-> MaxFetch, gps |-> 0, valid |-> 0,
                   tick |-> 0,
                   down |-> [ic \in 0..(c.serv_count - 1) |-> 0]],
               init_cpt)

NextTime ==
    \/ UpFetchLock \/ UpFetch \/ UpTref \/ UpFilter \/ UpSendLock
    \/ UpRecv

SpecTime == InitTime /\ [][NextTime]_vars

(* ------------------------------------------------------------------ *)
(* SpecGhost: thread_up fetching from the radio, which may fail, with   *)
(* the ghost stream enabled or not                                       *)
(* ------------------------------------------------------------------ *)
GhostConfs ==
    {[DefaultConf EXCEPT
        !.ghoststream_enabled = g,
        !.downstream_enabled = FALSE, !.statusstream_enabled = FALSE,
        !.rx_pkts = {[status |-> STAT_CRC_OK, size |-> 1, count_us |-> 0]},
        !.up_acks = UpAcks({4}, {PROTOCOL_VERSION}, {PKT_PUSH_ACK}, {0})] :
       g \in BOOLEAN}

InitGhost ==
    \E c \in GhostConfs :
      InitWith(c, [main |-> 0, up |-> MaxFetch, gps |-> 0, valid |-> 0,
                   tick |-> 0,
                   down |-> [ic \in 0..(c.serv_count - 1) |-> 0]],
               0)

NextGhost ==
    \/ UpFetchLock \/ UpFetch \/ UpFilter \/ UpSendLock \/ UpRecv

SpecGhost == InitGhost /\ [][NextGhost]_vars

(* ------------------------------------------------------------------ *)
(* SpecQuit: SIGINT, SIGTERM and SIGQUIT arriving at any time while     *)
(* main, thread_up and thread_down run, and the shutdown sequence       *)
(* ------------------------------------------------------------------ *)
Signals == {"SIGINT", "SIGTERM", "SIGQUIT"}

QuitConfs ==
    {[DefaultConf EXCEPT
        !.radiostream_enabled = r,
        !.statusstream_enabled = FALSE,
        !.rx_pkts = {},
        !.resp_bodies = {}, !.dn_acks = {}] :
       r \in BOOLEAN}

InitQuit ==
    \E c \in QuitConfs :
      InitWith(c, [main |-> MaxLoop, up |-> MaxLoop, gps |-> 0, valid |-> 0,
                   tick |-> 0,
                   down |-> [ic \in 0..(c.serv_count - 1) |-> MaxLoop]],
               0)

NextQuit ==
    \/ \E sigio \in Signals : sig_handler(sigio)
    \/ MainStats \/ MainEnd
    \/ UpFetchLock \/ UpFetch
    \/ \E ic \in LiveServers : DownHead(ic)
    \/ \E ic \in LiveServers : DownPullCnt(ic)
    \/ \E ic \in LiveServers : DownRecv(ic)

SpecQuit == InitQuit /\ [][NextQuit]_vars

(* ------------------------------------------------------------------ *)
(* SpecBoot: main from the loop over the servers on, every call of an   *)
(* iteration able to fail, then the threads with upstream traffic and   *)
(* PULL_DATA, the signals (handled once main has installed sig_handler, *)
(* lines 1281-1286, after the threads are created) and the shutdown     *)
(* sequence                                                             *)
(* ------------------------------------------------------------------ *)
BootConfs ==
    {[DefaultConf EXCEPT
        !.serv_count = n,
        !.serv_live = [ic \in 0..(n - 1) |-> FALSE],
        !.setup_fail = {0} \cup SetupCalls,
        !.statusstream_enabled = FALSE,
        !.rx_pkts = {[status |-> STAT_CRC_OK, size |-> 1, count_us |-> 0]},
        !.resp_bodies = {}, !.dn_acks = {},
        !.up_acks = UpAcks({4}, {PROTOCOL_VERSION}, {PKT_PUSH_ACK}, {0})] :
       n \in 1..2}

InitBoot ==
    \E c \in BootConfs :
      InitState(c, [main |-> 0, up |-> 1, gps |-> 0, valid |-> 0, tick |-> 0,
                    down |-> [ic \in 0..(c.serv_count - 1) |-> 1]],
                0, <<1, 1>>, FALSE)

NextBoot ==
    \/ MainSetup \/ MainStart
    \/ UpStart
    \/ \E ic \in LiveServers : DownStart(ic)
    \/ pc_main # "setup" /\ \E sigio \in Signals : sig_handler(sigio)
    \/ MainLoopHead \/ MainEnd
    \/ UpFetchLock \/ UpFetch \/ UpFilter \/ UpSendLock \/ UpRecv
    \/ \E ic \in LiveServers : DownHead(ic)
    \/ \E ic \in LiveServers : DownPullCnt(ic)
    \/ \E ic \in LiveServers : DownRecv(ic)

SpecBoot == InitBoot /\ [][NextBoot]_vars

(* ------------------------------------------------------------------ *)
(* SpecStop: the signals and the shutdown sequence of main while        *)
(* thread_gps, which is cancelled and not joined, and thread_up use the *)
(* concentrator                                                          *)
(* ------------------------------------------------------------------ *)
StopConf ==
    [DefaultConf EXCEPT
       !.gps_active = TRUE,
       !.downstream_enabled = FALSE, !.statusstream_enabled = FALSE,
       !.rx_pkts = {}]

InitStop ==
    InitWith(StopConf,
             [main |-> 0, up |-> MaxLoop, gps |-> MaxLoop, valid |-> 0,
              tick |-> 0,
              down |-> [ic \in 0..(StopConf.serv_count - 1) |-> 0]],
             0)

NextStop ==
    \/ \E sigio \in Signals : sig_handler(sigio)
    \/ MainLoopHead \/ MainEnd
    \/ UpFetchLock \/ UpFetch
    \/ Gps

SpecStop == InitStop /\ [][NextStop]_vars

(* ------------------------------------------------------------------ *)
(* SpecLocks: the threads at once over the seven mutexes, each for one  *)
(* iteration of its loop.  With one server every thread runs: the       *)
(* statistics loop, thread_up, thread_down with transmissions and       *)
(* beacons, thread_gps and thread_valid, or, GPS off, thread_up with a  *)
(* packet and the status report.  With two servers the GPS is off and   *)
(* thread_up only fetches; with three the thread_down instances run      *)
(* against each other.                                                   *)
(* ------------------------------------------------------------------ *)
LockServers == 3
LockConf(n, g, up_full) ==
    [DefaultConf EXCEPT
       !.serv_count = n, !.serv_live = [ic \in 0..(n - 1) |-> TRUE],
       !.gps_enabled = g, !.gps_active = g, !.beacon_enabled = g,
       !.beacon_period = 1,
       !.statusstream_enabled = up_full,
       !.rx_pkts = IF up_full
                     THEN {[status |-> STAT_CRC_OK, size |-> 1,
                            count_us |-> 0]}
                     ELSE {},
       !.resp_bodies = {BodyImme}, !.resp_vers = {PROTOCOL_VERSION},
       !.dn_acks = {}, !.up_acks = {}]

LockFuel(n, others, g) ==
    [main |-> others, up |-> others, gps |-> g, valid |-> g, tick |-> 0,
     down |-> [ic \in 0..(n - 1) |-> MaxLoop]]

InitLocks ==
    \E n \in 1..LockServers, g \in BOOLEAN, up_full \in BOOLEAN :
      /\ g \/ up_full => n = 1
      /\ ~(g /\ up_full)
      /\ InitWith(LockConf(n, g, up_full),
                  LockFuel(n, IF n < LockServers THEN MaxLoop ELSE 0,
                           IF g THEN MaxLoop ELSE 0),
                  XERR_INIT_AVG + 1)

NextLocks ==
    \/ MainStats \/ MainCopyGps \/ MainDisplay \/ MainRender
    \/ Up
    \/ \E ic \in LiveServers : DownHead(ic)
    \/ \E ic \in LiveServers : DownPullCnt(ic)
    \/ \E ic \in LiveServers : DownRecv(ic)
    \/ DownTx \/ DownBeacon
    \/ Gps
    \/ ValidWait \/ ValidAge \/ ValidXcorrTrack

SpecLocks == InitLocks /\ [][NextLocks]_vars

(* ------------------------------------------------------------------ *)
(* SpecExit: the signals, main, thread_up and thread_down with traffic  *)
(* in both directions, every thread scheduled fairly: a thread that can *)
(* take a step (its recv or HAL call returns, its mutex is free)        *)
(* eventually takes it                                                   *)
(* ------------------------------------------------------------------ *)
ExitConf ==
    [DefaultConf EXCEPT
       !.statusstream_enabled = FALSE,
       !.rx_pkts = {[status |-> STAT_CRC_OK, size |-> 1, count_us |-> 0]},
       !.resp_bodies = {BodyImme}, !.resp_vers = {PROTOCOL_VERSION},
       !.dn_acks = {},
       !.up_acks = UpAcks({4}, {PROTOCOL_VERSION}, {PKT_PUSH_ACK}, {0})]

InitExit ==
    InitWith(ExitConf,
             [main |-> MaxLoop, up |-> MaxLoop, gps |-> 0, valid |-> 0,
              tick |-> 0,
              down |-> [ic \in 0..(ExitConf.serv_count - 1) |-> MaxLoop]],
             0)

MainThread == MainStats \/ MainEnd
UpThread == UpFetchLock \/ UpFetch \/ UpFilter \/ UpSendLock \/ UpRecv
DownThread(ic) ==
    \/ DownHead(ic) \/ DownPullCnt(ic) \/ DownRecv(ic)
    \/ DownTxLockDw(ic) \/ DownTxLockConc(ic) \/ DownTxSend(ic)

NextExit ==
    \/ \E sigio \in Signals : sig_handler(sigio)
    \/ MainThread
    \/ UpThread
    \/ \E ic \in LiveServers : DownThread(ic)

FairExit ==
    /\ WF_vars(MainThread)
    /\ WF_vars(UpThread)
    /\ \A ic \in 0..(MAX_SERVERS - 1) :
         WF_vars(ic \in LiveServers /\ DownThread(ic))

SpecExit == InitExit /\ [][NextExit]_vars /\ FairExit

(* ------------------------------------------------------------------ *)
(* SpecFwd: thread_up with packets of two sizes, one of them of a       *)
(* modulation the serializer rejects, under the four settings of        *)
(* fwd_valid_pkt and fwd_error_pkt, with the statistics loop            *)
(* ------------------------------------------------------------------ *)
FwdPkts ==
    {[status |-> STAT_CRC_OK, size |-> 1, count_us |-> 0],
     [status |-> STAT_CRC_BAD, size |-> 2, count_us |-> 0],
     [status |-> STAT_CRC_OK, size |-> 2, count_us |-> 0,
      modulation |-> "MOD_UNDEFINED"]}

FwdConfs ==
    {[DefaultConf EXCEPT !.downstream_enabled = FALSE,
                         !.fwd_valid_pkt = v, !.fwd_error_pkt = e,
                         !.rx_pkts = FwdPkts,
                         !.up_acks = UpAcks({4}, {PROTOCOL_VERSION},
                                            {PKT_PUSH_ACK}, {0})] :
        v \in BOOLEAN, e \in BOOLEAN}

InitFwd ==
    \E c \in FwdConfs :
      InitWith(c, [main |-> MaxStats, up |-> MaxRounds, gps |-> 0,
                   valid |-> 0, tick |-> 0,
                   down |-> [ic \in 0..(c.serv_count - 1) |-> 0]],
               0)

NextFwd == MainStats \/ MainRender \/ Up

SpecFwd == InitFwd /\ [][NextFwd]_vars

(* ------------------------------------------------------------------ *)
(* SpecStats: the statistics loop against thread_up and thread_down,    *)
(* every counter of both groups being incremented                       *)
(* ------------------------------------------------------------------ *)
StatsConf ==
    [DefaultConf EXCEPT
       !.statusstream_enabled = FALSE,
       !.rx_pkts = {[status |-> st, size |-> 2, count_us |-> 0] :
                      st \in {STAT_CRC_OK, STAT_CRC_BAD, STAT_NO_CRC}},
       !.fwd_nocrc_pkt = TRUE,
       !.resp_bodies = {BodyImme}, !.resp_vers = {PROTOCOL_VERSION},
       !.dn_acks = DownAcks({4}, {PROTOCOL_VERSION}, {0}),
       !.up_acks = UpAcks({4}, {PROTOCOL_VERSION}, {PKT_PUSH_ACK}, {0})]

InitStats ==
    InitWith(StatsConf,
             [main |-> MaxStats, up |-> MaxLoop, gps |-> 0, valid |-> 0,
              tick |-> 0,
              down |-> [ic \in 0..(StatsConf.serv_count - 1) |-> MaxLoop]],
             0)

NextStats ==
    \/ MainStats
    \/ UpFetchLock \/ UpFetch \/ UpFilter \/ UpSendLock \/ UpRecv
    \/ DownPull \/ DownTx

SpecStats == InitStats /\ [][NextStats]_vars

(* ------------------------------------------------------------------ *)
(* Properties                                                          *)
(* ------------------------------------------------------------------ *)
Threads == {"main", "up", "gps", "valid"} \cup {DownName(ic) : ic \in Servers}

(* the threads inside a call that drives the concentrator *)
RadioUsers ==
    (IF pc_main = "trig" THEN {"main"} ELSE {})
    \cup (IF pc_up = "fetch" THEN {"up"} ELSE {})
    \cup (IF pc_gps = "trig" THEN {"gps"} ELSE {})
    \cup {DownName(ic) : ic \in {k \in Servers :
             pc_down[k] \in {"tx_send", "bcn_send", "bcn_status"}}}

(* C1: at most one thread is inside a radio operation (upstream fetch,   *)
(* PULL_RESP lgw_send, beacon lgw_send and lgw_status, lgw_get_trigcnt   *)
(* of thread_gps and of main), and it holds mx_concent.                  *)
C1_RadioExclusive ==
    /\ Cardinality(RadioUsers) <= 1
    /\ \A t \in RadioUsers : mx["mx_concent"] = t

(* thread_down polls the beacon's status while main and thread_gps wait  *)
(* for the concentrator                                                  *)
C1_Witness ==
    /\ pc_down[0] = "bcn_status"
    /\ pc_main = "trig_lock" /\ pc_gps = "trig_lock"

LockRank(m) ==
    CASE m = "mx_concent" -> 1
      [] m = "mx_timeref" -> 2
      [] m = "mx_xcorr" -> 3
      [] m \in {"mx_meas_up", "mx_meas_dw", "mx_meas_gps"} -> 4
      [] m = "mx_stat_rep" -> 5

(* C2: no thread acquires a lock that comes earlier in the order         *)
(* mx_concent, mx_timeref, mx_xcorr, counter locks, mx_stat_rep while it *)
(* holds one that comes later.                                           *)
C2_LockOrder ==
    [][\A m \in Mutexes :
         (mx'[m] # mx[m] /\ mx'[m] # NoOwner) =>
            \A h \in Mutexes :
               mx[h] = mx'[m] => ~(LockRank(m) < LockRank(h))]_vars

InBeaconPath(t) ==
    \E ic \in Servers :
       /\ t = DownName(ic)
       /\ pc_down[ic] \in {"bcn_tref", "bcn_xcorr", "bcn_conc", "bcn_send",
                           "bcn_poll", "bcn_status"}

(* C3: outside the beacon path of thread_down no thread holds two        *)
(* mutexes at the same time.                                             *)
C3_OneLockAtATime ==
    \A t \in Threads : InBeaconPath(t) \/ Cardinality(Held(t)) <= 1

(* C4: thread_down requests shutdown only with autoquit_threshold > 0    *)
(* and that many PULL_DATA sent since the last matching PULL_ACK ...     *)
C4_OnlyIf ==
    \A ic \in LiveServers :
       hist.autoquit[ic] =>
          /\ conf.autoquit_threshold > 0
          /\ hist.unacked[ic] >= conf.autoquit_threshold
          /\ exit_sig /\ pc_down[ic] = "done"
(* ... every accepted PULL_ACK resets the count, which at the loop head  *)
(* is the number of requests sent since the last matching PULL_ACK ...   *)
C4_Reset ==
    \A ic \in LiveServers :
       /\ pc_down[ic] = "head" => dn[ic].autoquit_cnt = hist.unacked[ic]
       /\ pc_down[ic] = "ack_cnt" => dn[ic].autoquit_cnt = 0
(* ... and with the threshold reached at the loop head, it does.         *)
C4_If ==
    \A ic \in LiveServers :
       (/\ pc_down[ic] = "head" /\ pc_down'[ic] # "head"
        /\ ~exit_sig /\ ~quit_sig
        /\ conf.autoquit_threshold > 0
        /\ hist.unacked[ic] >= conf.autoquit_threshold)
       => (exit_sig' /\ pc_down'[ic] = "done" /\ hist'.autoquit[ic])
(* C4: auto-quit happens if and only if autoquit_threshold > 0 and       *)
(* autoquit_threshold consecutive PULL_DATA went unacknowledged; an      *)
(* accepted PULL_ACK resets the count to zero.                           *)
C4_AutoQuit == [](C4_OnlyIf /\ C4_Reset) /\ [][C4_If]_vars

(* shutdown requested after an acknowledged request and then             *)
(* autoquit_threshold unacknowledged ones                                *)
C4_Witness ==
    /\ hist.autoquit[0]
    /\ hist.sum_dw.dw_ack_rcv + meas_dw.dw_ack_rcv >= 1

(* C5: dw_ack_rcv <= dw_pull_sent in every state, for the live counters  *)
(* and for the pair captured by the statistics snapshot.                 *)
C5_AckLePull ==
    /\ meas_dw.dw_ack_rcv <= meas_dw.dw_pull_sent
    /\ cp_dw.dw_ack_rcv <= cp_dw.dw_pull_sent

(* C6: up_ack_rcv <= up_dgram_sent * serv_count in every state and every *)
(* snapshot; the send and its acknowledgement stay in one critical       *)
(* section of mx_meas_up.                                                *)
C6_AckLeSent ==
    /\ meas_up.up_ack_rcv <= meas_up.up_dgram_sent * conf.serv_count
    /\ cp_up.up_ack_rcv <= cp_up.up_dgram_sent * conf.serv_count
    /\ pc_up = "ack" => mx["mx_meas_up"] = "up"

(* a snapshot taken between two acknowledged datagrams *)
C6_Witness ==
    /\ cp_up.up_dgram_sent = 1 /\ cp_up.up_ack_rcv = 1
    /\ meas_up.up_dgram_sent = 1 /\ meas_up.up_ack_rcv = 1

C7_Once ==
    \A ic \in LiveServers :
       /\ hist.sess_acks[ic] <= 1
       /\ hist.sess_acks[ic] <= hist.sess_match[ic]
       /\ pc_down[ic] = "ack_cnt" =>
            hist.drx[ic] = "ack_match" /\ hist.sess_acks[ic] = 0
C7_NoChange ==
    \A ic \in LiveServers :
       (/\ pc_down[ic] = "inner" /\ dn'[ic].nrecv = dn[ic].nrecv + 1
        /\ \/ hist'.drx[ic] = "ack_other"
           \/ hist'.drx[ic] = "ack_match" /\ dn[ic].req_ack)
       => /\ dn'[ic].req_ack = dn[ic].req_ack
          /\ dn'[ic].autoquit_cnt = dn[ic].autoquit_cnt
          /\ pc_down'[ic] = "inner"
          /\ meas_dw' = meas_dw
(* C7: within one PULL session dw_ack_rcv is incremented at most once,   *)
(* only by a version-1 PULL_ACK carrying the session's token; a PULL_ACK *)
(* with another token, or a second matching one, changes neither         *)
(* req_ack, the auto-quit counter nor dw_ack_rcv.                        *)
C7_AckOnce == []C7_Once /\ [][C7_NoChange]_vars

(* two matching PULL_ACKs in one session, one counted *)
C7_Witness == hist.sess_match[0] = 2 /\ hist.sess_acks[0] = 1

C8_Down ==
    \A ic \in LiveServers :
       (/\ pc_down[ic] = "inner" /\ dn'[ic].nrecv = dn[ic].nrecv + 1
        /\ hist'.drx[ic] = "malformed")
       => /\ dn'[ic].req_ack = dn[ic].req_ack
          /\ dn'[ic].autoquit_cnt = dn[ic].autoquit_cnt
          /\ pc_down'[ic] \in {"inner", "bcn_tref"}
          /\ meas_dw' = meas_dw /\ mx' = mx
C8_Up ==
    (/\ pc_up = "ack" /\ <<pc_up, up>>' # <<pc_up, up>>
     /\ hist'.rx = "malformed")
    => /\ up'.i = up.i /\ pc_up' = "ack"
       /\ meas_up' = meas_up /\ mx' = mx
(* C8: a datagram shorter than 4 bytes or of another version, received   *)
(* by thread_down or by thread_up's acknowledgement wait, changes no     *)
(* counter, session flag or lock and consumes no receive attempt.        *)
C8_DroppedNoSideEffects == [][C8_Down /\ C8_Up]_vars

(* C9: every packet fetched increments rx_rcv once and exactly one of    *)
(* rx_ok, rx_bad, rx_nocrc or none for an unknown status, in one         *)
(* critical section: rx_ok + rx_bad + rx_nocrc <= rx_rcv in the live     *)
(* counters and in every snapshot.                                       *)
C9_OneStatusPerPacket ==
    /\ \A m \in {meas_up, cp_up} : m.rx_ok + m.rx_bad + m.rx_nocrc <= m.rx_rcv
    /\ hist.sum_up.rx_ok + meas_up.rx_ok = hist.seen[STAT_CRC_OK]
    /\ hist.sum_up.rx_bad + meas_up.rx_bad = hist.seen[STAT_CRC_BAD]
    /\ hist.sum_up.rx_nocrc + meas_up.rx_nocrc = hist.seen[STAT_NO_CRC]
    /\ hist.sum_up.rx_rcv + meas_up.rx_rcv
         = hist.seen[STAT_CRC_OK] + hist.seen[STAT_CRC_BAD]
           + hist.seen[STAT_NO_CRC] + hist.seen[STAT_UNDEFINED]

(* a snapshot of two packets, one valid and one of unknown status *)
C9_Witness ==
    /\ cp_up.rx_rcv = 2 /\ cp_up.rx_ok = 1
    /\ hist.seen[STAT_UNDEFINED] = 1 /\ hist.seen[STAT_CRC_OK] = 1

ShouldForward(status) ==
    \/ status = STAT_CRC_OK /\ conf.fwd_valid_pkt
    \/ status = STAT_CRC_BAD /\ conf.fwd_error_pkt
    \/ status = STAT_NO_CRC /\ conf.fwd_nocrc_pkt

(* C10: a fetched packet is serialized into the rxpk array iff its       *)
(* status is CRC_OK, CRC_BAD or NO_CRC and the matching forward flag is  *)
(* set; a packet of any other status is never serialized.                *)
C10_FilterDecision ==
    [][(pc_up = "filter" /\ <<pc_up, up>>' # <<pc_up, up>>) =>
         LET pkt == up.rxpkt[up.i + 1]
         IN  IF ShouldForward(pkt.status)
               THEN /\ Len(up'.rxpk) = Len(up.rxpk) + 1
                    /\ up'.rxpk[Len(up'.rxpk)].stat = StatCode(pkt.status)
                    /\ SubSeq(up'.rxpk, 1, Len(up.rxpk)) = up.rxpk
               ELSE up'.rxpk = up.rxpk]_vars

(* a CRC_OK packet dropped and a CRC_BAD packet serialized *)
C10_Witness ==
    /\ pc_up \in {"rep", "send"}
    /\ Len(up.rxpkt) = 2
    /\ up.rxpkt[1].status = STAT_CRC_OK /\ up.rxpkt[2].status = STAT_CRC_BAD
    /\ Len(up.rxpk) = 1 /\ up.rxpk[1].stat = "-1"

C11_Counts ==
    /\ \A m \in {meas_up, cp_up} : m.up_pkt_fwd <= m.rx_rcv
    /\ Running =>
         /\ hist.sum_up.up_pkt_fwd + meas_up.up_pkt_fwd = hist.n_rxpk
         /\ hist.sum_up.up_payload_byte + meas_up.up_payload_byte
              = hist.rxpk_bytes
C11_Step ==
    (pc_up = "filter" /\ <<pc_up, up>>' # <<pc_up, up>>) =>
       LET pkt == up.rxpkt[up.i + 1]
       IN  IF ShouldForward(pkt.status)
             THEN /\ meas_up'.up_pkt_fwd = meas_up.up_pkt_fwd + 1
                  /\ meas_up'.up_payload_byte
                       = meas_up.up_payload_byte + pkt.size
             ELSE /\ meas_up'.up_pkt_fwd = meas_up.up_pkt_fwd
                  /\ meas_up'.up_payload_byte = meas_up.up_payload_byte
C12_SomePasses == \E k \in 1..Len(up.rxpkt) : ShouldForward(up.rxpkt[k].status)
C12_OnlyIf ==
    pc_up \in {"send", "ack"} => (up.send_report \/ C12_SomePasses)
C12_Step ==
    /\ (pc_up = "fetch" /\ pc_up' \in {"tref", "filter", "rep"})
         => up'.send_report = report_ready
    /\ (/\ pc_up = "filter" /\ <<pc_up, up>>' # <<pc_up, up>>
        /\ up.i + 1 = up.nb_pkt
        /\ ~up.send_report /\ ~C12_SomePasses)
         => /\ pc_up' = "head"
            /\ hist'.n_push = hist.n_push
            /\ meas_up'.rx_rcv = meas_up.rx_rcv + 1
            /\ meas_up'.rx_ok + meas_up'.rx_bad + meas_up'.rx_nocrc
                 = meas_up.rx_ok + meas_up.rx_bad + meas_up.rx_nocrc
                   + (IF up.rxpkt[up.nb_pkt].status = STAT_UNDEFINED
                        THEN 0 ELSE 1)
    /\ hist'.n_push # hist.n_push => pc_up = "send"
(* C12: thread_up sends a PUSH_DATA only in an iteration in which a      *)
(* packet passed the filter or the report flag read at the start of the  *)
(* iteration was set; with every packet filtered out and no report       *)
(* nothing is sent, while rx_rcv and the status counter are incremented. *)
C12_SendOnlyIfContent == []C12_OnlyIf /\ [][C12_Step]_vars

(* one CRC_BAD packet fetched and filtered out, no report: the iteration *)
(* ends with nothing sent                                                *)
C12_Witness ==
    /\ pc_up = "head" /\ fuel.up = 0
    /\ hist.n_push = 0 /\ hist.rep_sent = 0
    /\ meas_up.rx_rcv = 1 /\ meas_up.rx_bad = 1 /\ meas_up.up_pkt_fwd = 0

(* C13: for every counter of the upstream and downstream groups, the     *)
(* values captured by the snapshots so far plus the live value equal the *)
(* increments thread_up and thread_down applied: none is lost, none is   *)
(* captured twice.                                                       *)
C13_NoLossNoDouble ==
    /\ \A f \in DOMAIN ZeroUp :
         hist.sum_up[f] + meas_up[f] = hist.tot_up[f]
    /\ \A f \in DOMAIN ZeroDw :
         hist.sum_dw[f] + meas_dw[f] = hist.tot_dw[f]

(* two snapshots, each with increments of both groups captured, and     *)
(* more increments applied since                                         *)
C13_Witness ==
    /\ fuel.main = 0 /\ pc_main \in {"trig_lock", "trig", "loop"}
    /\ cp_up.rx_rcv >= 1 /\ cp_dw.nb_tx_ok = 1
    /\ hist.sum_up.rx_rcv > cp_up.rx_rcv
    /\ hist.sum_dw.dw_pull_sent = 1 /\ cp_dw.dw_pull_sent = 0
    /\ meas_up.up_ack_rcv = 1

(* C14: the time reference is replaced and read only under mx_timeref, *)
(* so that no reader observes a validity flag and a (system time, UTC,  *)
(* counter) triple that were not in place together; for the display of  *)
(* the statistics loop: the flag it tested and the system time it       *)
(* printed the age of belong to the same triple                         *)
C14_ConsistentSnapshot ==
    hist.disp.shown => hist.disp.flag_ref = hist.disp.age_ref

(* C15: once the last synchronisation is GPS_REF_MAX_AGE + 1 seconds    *)
(* old, the time reference and the crystal correction are invalid and   *)
(* the correction is 1.0, taken to the letter: in every state at        *)
(* time >= t0 + 31                                                       *)
C15_InvalidAt31 ==
    now >= time_reference_gps.systime + GPS_REF_MAX_AGE + 1
      => /\ ~gps_ref_valid
         /\ ~xtal_correct_ok
         /\ xtal_correct = <<1, 1>>

(* C15 amended: with thread_valid polling once per second, the poll     *)
(* that finds the age 31 completes during second t0 + 31, so that the   *)
(* three hold in every state at time >= t0 + GPS_REF_MAX_AGE + 2        *)
C15_InvalidAfterPoll ==
    now >= time_reference_gps.systime + GPS_REF_MAX_AGE + 2
      => /\ ~gps_ref_valid
         /\ ~xtal_correct_ok
         /\ xtal_correct = <<1, 1>>

(* the reference synchronised during the run is 32 seconds old, and the *)
(* correction that was valid has been reset                              *)
C15_Witness ==
    /\ time_reference_gps.systime > BootTime
    /\ now = time_reference_gps.systime + GPS_REF_MAX_AGE + 2
    /\ valid.init_cpt = 0 /\ ~xtal_correct_ok /\ ~gps_ref_valid

(* C16: whenever the crystal correction is marked invalid its value is *)
(* 1.0                                                                   *)
C16_InvalidIsOne == ~xtal_correct_ok => xtal_correct = <<1, 1>>

(* a correction that was valid with a value other than 1.0 has been      *)
(* invalidated by a poll that found the reference too old                *)
C16_Witness ==
    /\ ~xtal_correct_ok /\ ~gps_ref_valid
    /\ valid.init_cpt = 0 /\ pc_valid = "head"
    /\ now > time_reference_gps.systime + GPS_REF_MAX_AGE

(* C17 as stated: the crystal correction is valid as soon as the first  *)
(* XERR_INIT_AVG samples of consecutive valid polls have been            *)
(* accumulated, that is once the poll that took the last of them is      *)
(* complete                                                              *)
C17_ValidAt128 ==
    (hist.xerr.run >= XERR_INIT_AVG /\ pc_valid = "head") => xtal_correct_ok

(* C17 amended: the crystal correction becomes valid on the valid poll   *)
(* that follows the XERR_INIT_AVG accumulating ones (the 129th in a      *)
(* row), with the value XERR_INIT_AVG / (sum of the 128 samples), the    *)
(* sample of that poll being unused; each later valid poll applies one   *)
(* tracking update with its own sample; a poll that finds the reference  *)
(* invalid resets count, accumulator and state                           *)
C17_Track(c, e) ==
    RatAdd(RatSub(c, RatDivInt(c, XERR_FILT_COEF)),
           RatDivInt(RatInv(e), XERR_FILT_COEF))

C17_Inv ==
    /\ (xtal_correct_ok /\ pc_valid # "xcorr_reset")
          => hist.xerr.run > XERR_INIT_AVG
    /\ (hist.xerr.run > XERR_INIT_AVG /\ pc_valid \in {"head", "age"})
          => xtal_correct_ok
    /\ (hist.xerr.run <= XERR_INIT_AVG /\ pc_valid \in {"head", "age"})
          => /\ valid.init_cpt = hist.xerr.run
             /\ valid.init_acc = hist.xerr.sum
             /\ ~xtal_correct_ok

C17_Step ==
    /\ (~xtal_correct_ok /\ xtal_correct_ok')
          => /\ hist.xerr.run = XERR_INIT_AVG + 1
             /\ xtal_correct' = RatInv(RatDivInt(hist.xerr.sum, XERR_INIT_AVG))
    /\ (pc_valid = "age" /\ pc_valid' # "age")
          => pc_valid' = IF ~gps_ref_valid' THEN "xcorr_reset"
                         ELSE IF hist'.xerr.run <= XERR_INIT_AVG THEN "head"
                         ELSE IF hist'.xerr.run = XERR_INIT_AVG + 1
                                THEN "xcorr_init"
                         ELSE "xcorr_track"
    /\ (pc_valid = "xcorr_track" /\ pc_valid' = "head")
          => /\ xtal_correct' = C17_Track(xtal_correct, hist.xerr.last)
             /\ xtal_correct_ok'
    /\ (pc_valid = "xcorr_reset" /\ pc_valid' = "head")
          => /\ valid'.init_cpt = 0 /\ valid'.init_acc = <<0, 1>>
             /\ ~xtal_correct_ok' /\ xtal_correct' = <<1, 1>>
    /\ (xtal_correct' # xtal_correct)
          => pc_valid \in {"xcorr_init", "xcorr_track", "xcorr_reset"}

C17_Correction == []C17_Inv /\ [][C17_Step]_vars

(* the average of 126 samples of 1 and two of 2 has been tracked with a *)
(* sample of 2                                                           *)
C17_Witness ==
    /\ xtal_correct_ok /\ pc_valid = "head"
    /\ hist.xerr.sum = <<130, 1>> /\ hist.xerr.run = XERR_INIT_AVG + 2
    /\ hist.xerr.last = <<2, 1>>
    /\ xtal_correct = C17_Track(<<64, 65>>, <<2, 1>>)

(* C18: in every beacon submitted to the concentrator, payload[7] is   *)
(* the CRC-8 of bytes 0..6 and bytes 15..16 (little endian) are the     *)
(* CRC-16 of bytes 8..14, all as submitted                               *)
C18_Crc8 ==
    hist.n_beacon > 0
      => hist.last_beacon.payload[7]
           = crc8_ccit(Bytes(hist.last_beacon.payload, 0, 7))

C18_Crc16 ==
    hist.n_beacon > 0
      => hist.last_beacon.payload[15] + 256 * hist.last_beacon.payload[16]
           = crc_ccit(Bytes(hist.last_beacon.payload, 8, 7))

C18_BeaconCrcs == C18_Crc8 /\ C18_Crc16

(* C19: in every beacon submitted, bytes 3..6 hold field_time (little   *)
(* endian), bytes 9..11 the latitude field and bytes 12..14 the          *)
(* longitude field                                                       *)
C19_BeaconFields ==
    hist.n_beacon > 0
      => LET b == hist.last_beacon
         IN  /\ \A k \in 0..3 :
                  b.payload[3 + k] = (b.field_time \div (2 ^ (8 * k))) % 256
             /\ \A k \in 0..2 :
                  /\ b.payload[9 + k] = ByteOf(FieldLatitude(conf.ref_lat), k)
                  /\ b.payload[12 + k]
                       = ByteOf(FieldLongitude(conf.ref_lon), k)

(* C20: each RMC sentence whose UTC thread_gps obtains sets            *)
(* beacon_next_pps to ((utc_sec + 1) mod beacon_period = beacon_offset) *)
(* when beacon_period > 0; the flag is raised by no other step, and      *)
(* never when beacon_period = 0                                          *)
C20_Rmc == pc_gps = "head" /\ pc_gps' = "trig_lock"

C20_Step ==
    /\ (C20_Rmc /\ conf.beacon_period > 0)
          => beacon_next_pps'
               = ((gps'.utc_sec + 1) % conf.beacon_period
                    = conf.beacon_offset)
    /\ (~beacon_next_pps /\ beacon_next_pps')
          => C20_Rmc /\ conf.beacon_period > 0

C20_NeverArmed == conf.beacon_period = 0 => ~beacon_next_pps

C20_BeaconArming == []C20_NeverArmed /\ [][C20_Step]_vars

(* after a beacon was sent the clock has advanced and the next RMC      *)
(* sentence arms the beacon again                                        *)
C20_Witness ==
    /\ pc_gps = "trig_lock" /\ beacon_next_pps
    /\ conf.beacon_period = 2 /\ conf.beacon_offset = 1
    /\ gps.utc_sec = BootTime + 2 /\ hist.n_beacon = 1

(* ------------------------------------------------------------------ *)
(* C21: thread_down enters the beacon path only in a step that finds    *)
(* beacon_next_pps set with GPS active; it goes on to build and submit  *)
(* the beacon only from the test that finds gps_ref_valid and           *)
(* xtal_correct_ok both set; the test clears the flag whether the       *)
(* beacon is then emitted or skipped; and only thread_gps sets the flag *)
(* again.                                                               *)
(* ------------------------------------------------------------------ *)
C21_Emitting == {"bcn_xcorr", "bcn_conc", "bcn_send"}
C21_Pred(q) ==
    CASE q = "bcn_xcorr" -> "bcn_tref"
      [] q = "bcn_conc" -> "bcn_xcorr"
      [] q = "bcn_send" -> "bcn_conc"
C21_Step ==
    /\ \A ic \in LiveServers :
         /\ (pc_down[ic] # "bcn_tref" /\ pc_down'[ic] = "bcn_tref")
              => beacon_next_pps /\ conf.gps_active
         /\ (pc_down'[ic] \in C21_Emitting /\ pc_down'[ic] # pc_down[ic])
              => pc_down[ic] = C21_Pred(pc_down'[ic])
         /\ (pc_down[ic] = "bcn_tref" /\ pc_down'[ic] = "bcn_xcorr")
              => gps_ref_valid /\ xtal_correct_ok
         /\ (pc_down[ic] = "bcn_tref" /\ pc_down'[ic] # "bcn_tref")
              => ~beacon_next_pps'
    /\ hist'.n_beacon # hist.n_beacon
         => \E ic \in LiveServers :
              pc_down[ic] = "bcn_send" /\ pc_down'[ic] # "bcn_send"
    /\ (~beacon_next_pps /\ beacon_next_pps')
         => pc_gps = "head" /\ pc_gps' = "trig_lock"
C21_BeaconGate == [][C21_Step]_vars

(* two downstream threads have each found the flag set and submitted a  *)
(* beacon, and the flag is clear                                         *)
C21_Witness ==
    /\ hist.n_beacon = 2 /\ ~beacon_next_pps
    /\ \A ic \in LiveServers : pc_down[ic] = "inner"

(* ------------------------------------------------------------------ *)
(* C22: the timing mode of a PULL_RESP is chosen by priority.  While    *)
(* the datagram waits to be counted, its TX structure is IMMEDIATE if   *)
(* imme is true, else TIMESTAMPED at tmst if tmst is present, else      *)
(* TIMESTAMPED from time with GPS active; the conversion of time is     *)
(* made in a step that finds gps_ref_valid set and reads the time       *)
(* reference under mx_timeref; that structure is what lgw_send gets     *)
(* before the thread receives again; and a datagram with no timing      *)
(* mode never reaches the radio.                                        *)
(* ------------------------------------------------------------------ *)
C22_Mode(ic) ==
    LET t == dn[ic].msg.body.txpk
        pkt == dn[ic].txpkt
    IN  IF Has(t, "imme") /\ t.imme
          THEN pkt.tx_mode = "IMMEDIATE" /\ pkt.count_us = 0
        ELSE IF Has(t, "tmst")
          THEN pkt.tx_mode = "TIMESTAMPED" /\ pkt.count_us = t.tmst
        ELSE /\ Has(t, "time") /\ conf.gps_active
             /\ pkt.tx_mode = "TIMESTAMPED"
C22_Inv ==
    \A ic \in LiveServers :
      /\ pc_down[ic] = "tx_dw" => C22_Mode(ic)
      /\ pc_down[ic] = "resp_tref" =>
            LET t == dn[ic].msg.body.txpk
            IN  /\ Has(t, "time") /\ ~Has(t, "tmst")
                /\ ~(Has(t, "imme") /\ t.imme)
C22_Step ==
    \A ic \in LiveServers :
      /\ (pc_down[ic] # "tx_dw" /\ pc_down'[ic] = "tx_dw")
           => \/ pc_down[ic] = "inner"
              \/ /\ pc_down[ic] = "resp_tref"
                 /\ gps_ref_valid /\ mx["mx_timeref"] = NoOwner
                 /\ dn'[ic].txpkt.count_us =
                      lgw_utc2cnt(time_reference_gps,
                                  dn[ic].msg.body.txpk.time.sec)
      /\ (pc_down[ic] = "tx_dw" /\ pc_down'[ic] # "tx_dw")
           => pc_down'[ic] = "tx_conc" /\ dn'[ic].txpkt = dn[ic].txpkt
      /\ (pc_down[ic] = "tx_conc" /\ pc_down'[ic] # "tx_conc")
           => pc_down'[ic] = "tx_send" /\ dn'[ic].txpkt = dn[ic].txpkt
      /\ (pc_down[ic] = "tx_send" /\ pc_down'[ic] # "tx_send")
           => /\ hist'.last_tx = dn[ic].txpkt
              /\ hist'.n_send = hist.n_send + 1
      /\ hist'.n_send # hist.n_send
           => \E jc \in LiveServers :
                pc_down[jc] = "tx_send" /\ pc_down'[jc] # "tx_send"
C22_TimingMode == []C22_Inv /\ [][C22_Step]_vars

(* a packet whose only timing field was time has been handed to the     *)
(* radio with the counter value of the reference                        *)
C22_Witness ==
    /\ hist.n_send > 0
    /\ hist.last_tx.tx_mode = "TIMESTAMPED"
    /\ hist.last_tx.count_us = 1000000

(* ------------------------------------------------------------------ *)
(* C23: a PULL_RESP that fails parsing is abandoned.  Only a datagram   *)
(* whose JSON is valid and whose txpk has a timing mode, every          *)
(* mandatory field and valid modu, datr and codr values goes on to be   *)
(* counted and sent; a receive that ends without that leaves the        *)
(* downstream counters, the number of lgw_send calls and the sockets    *)
(* as they were, leaves no mutex with the thread, and returns to the    *)
(* receive.                                                              *)
(* ------------------------------------------------------------------ *)
C23_WellFormed(t) ==
    /\ (Has(t, "imme") /\ t.imme) \/ Has(t, "tmst") \/ Has(t, "time")
    /\ \A f \in {"freq", "rfch", "modu", "size", "data"} : Has(t, f)
    /\ \/ /\ t.modu = "LORA"
          /\ Has(t, "datr") /\ Has(t, "codr")
          /\ t.datr.fmt /\ t.datr.sf \in 7..12
          /\ t.datr.bw \in {125, 250, 500}
          /\ t.codr \in {"4/5", "4/6", "2/3", "4/7", "4/8", "1/2"}
       \/ /\ t.modu = "FSK"
          /\ Has(t, "datr") /\ Has(t, "fdev")
C23_Inv ==
    \A ic \in LiveServers :
      pc_down[ic] = "tx_dw" =>
        /\ dn[ic].msg.typ = PKT_PULL_RESP
        /\ dn[ic].msg.body.json = "ok"
        /\ C23_WellFormed(dn[ic].msg.body.txpk)
C23_Abandoned(ic) ==
    /\ pc_down'[ic] = "inner"
    /\ \/ pc_down[ic] = "resp_tref"
       \/ pc_down[ic] = "inner" /\ dn'[ic].nrecv = dn[ic].nrecv + 1
C23_Step ==
    /\ \A ic \in LiveServers :
         C23_Abandoned(ic) =>
           /\ meas_dw' = meas_dw
           /\ hist'.n_send = hist.n_send
           /\ sock_state' = sock_state
           /\ \A m \in Mutexes : mx'[m] # DownName(ic)
    /\ (\/ hist'.n_send # hist.n_send
        \/ \E f \in {"dw_dgram_rcv", "dw_network_byte", "dw_payload_byte",
                      "nb_tx_ok", "nb_tx_fail"} : meas_dw'[f] # meas_dw[f])
         => \E ic \in LiveServers : pc_down[ic] \in {"tx_dw", "tx_send"}
C23_ParseFailure == []C23_Inv /\ [][C23_Step]_vars

(* a PULL_RESP in immediate mode has been parsed up to a failing field  *)
(* and abandoned, nothing having been counted or sent                   *)
C23_Witness ==
    \E ic \in LiveServers :
      /\ pc_down[ic] = "inner" /\ dn[ic].nrecv > 0
      /\ dn[ic].sent_immediate
      /\ hist.n_send = 0 /\ meas_dw.dw_dgram_rcv = 0

(* ------------------------------------------------------------------ *)
(* C24: a PULL_RESP that parses is counted once in dw_dgram_rcv, is     *)
(* followed by one lgw_send call and by one increment of nb_tx_ok or of *)
(* nb_tx_fail, with no retry; so nb_tx_ok + nb_tx_fail = dw_dgram_rcv   *)
(* in every snapshot of the statistics loop, and in the counters        *)
(* whenever mx_meas_dw is free.                                         *)
(* ------------------------------------------------------------------ *)
C24_Balanced(c) == c.nb_tx_ok + c.nb_tx_fail = c.dw_dgram_rcv
C24_Inv ==
    /\ C24_Balanced(cp_dw)
    /\ C24_Balanced(hist.sum_dw)
    /\ mx["mx_meas_dw"] = NoOwner => C24_Balanced(meas_dw)
    /\ hist.n_send = hist.tot_dw.nb_tx_ok + hist.tot_dw.nb_tx_fail
C24_Step ==
    \A ic \in LiveServers :
      /\ (pc_down[ic] = "tx_dw" /\ pc_down'[ic] # "tx_dw")
           => /\ pc_down'[ic] = "tx_conc"
              /\ meas_dw'.dw_dgram_rcv = meas_dw.dw_dgram_rcv + 1
              /\ hist'.n_send = hist.n_send
      /\ (pc_down[ic] = "tx_conc" /\ pc_down'[ic] # "tx_conc")
           => /\ pc_down'[ic] = "tx_send"
              /\ meas_dw' = meas_dw /\ hist'.n_send = hist.n_send
      /\ (pc_down[ic] = "tx_send" /\ pc_down'[ic] # "tx_send")
           => /\ pc_down'[ic] = "inner"
              /\ hist'.n_send = hist.n_send + 1
              /\ meas_dw'.dw_dgram_rcv = meas_dw.dw_dgram_rcv
              /\ (meas_dw'.nb_tx_ok - meas_dw.nb_tx_ok)
                   + (meas_dw'.nb_tx_fail - meas_dw.nb_tx_fail) = 1
              /\ meas_dw'.nb_tx_ok >= meas_dw.nb_tx_ok
              /\ meas_dw'.nb_tx_fail >= meas_dw.nb_tx_fail
C24_OneSendPerResp == []C24_Inv /\ [][C24_Step]_vars

(* a snapshot holds two datagrams, one sent and one that failed *)
C24_Witness ==
    /\ cp_dw.dw_dgram_rcv = 2
    /\ cp_dw.nb_tx_ok = 1 /\ cp_dw.nb_tx_fail = 1

(* ------------------------------------------------------------------ *)
(* C25: every packet object of the rxpk array under construction has a  *)
(* time member: the UTC time derived from the time reference when GPS   *)
(* is active and the reference copied for the batch was valid,          *)
(* otherwise the local timestamp of the fetch.                          *)
(* ------------------------------------------------------------------ *)
C25_TimeField ==
    \A k \in 1..Len(up.rxpk) :
      /\ up.rxpk[k].time # "absent"
      /\ up.rxpk[k].time = "utc" => conf.gps_active /\ up.ref_ok
      /\ ~(conf.gps_active /\ up.ref_ok) => up.rxpk[k].time = "fetch"

(* ------------------------------------------------------------------ *)
(* C26: once lgw_receive has returned LGW_HAL_ERROR in thread_up, the   *)
(* process has ended with a failure exit: thread_up is in none of the   *)
(* steps that serialize or send, whatever ghost_get returned.           *)
(* ------------------------------------------------------------------ *)
C26_AbortOnHalError ==
    hist.rx_err => proc = "exit_failure" /\ pc_up = "aborted"

(* ------------------------------------------------------------------ *)
(* C27: the sockets are shut down and lgw_stop is called only with      *)
(* exit_sig set and only after thread_up and every thread_down have     *)
(* ended and been joined; when the test of exit_sig finds it clear      *)
(* (the loop ended on quit_sig alone) main goes straight to its exit    *)
(* with the sockets untouched; and main's exit is a success exit.       *)
(* ------------------------------------------------------------------ *)
C27_Joined ==
    /\ conf.upstream_enabled => pc_up = "done"
    /\ conf.downstream_enabled => \A ic \in LiveServers : pc_down[ic] = "done"
C27_Inv ==
    /\ (\/ pc_main = "lgw_stop"
        \/ \E ic \in Servers : sock_state[ic] = "shutdown")
         => exit_sig /\ C27_Joined
    /\ pc_main \in {"shutdown", "lgw_stop", "exit"} => C27_Joined
    /\ proc = "exit_success" => pc_main = "exit"
C27_Step ==
    /\ (pc_main = "shutdown" /\ pc_main' # "shutdown" /\ ~exit_sig)
         => pc_main' = "exit" /\ sock_state' = sock_state
    /\ sock_state' # sock_state => pc_main = "shutdown" /\ exit_sig
    /\ (pc_main # "lgw_stop" /\ pc_main' = "lgw_stop")
         => pc_main = "shutdown" /\ exit_sig
    /\ (pc_main = "exit" /\ proc' # proc) => proc' = "exit_success"
C28_Ended ==
    \/ proc = "exit_failure"
    \/ /\ proc = "exit_success"
       /\ pc_up = "done"
       /\ \A ic \in LiveServers : pc_down[ic] = "done"
C28_Termination == (exit_sig \/ quit_sig) ~> C28_Ended

(* a signal has arrived while thread_up held mx_meas_up in its          *)
(* acknowledgement wait and thread_down was in its receive loop          *)
C28_Witness ==
    /\ exit_sig \/ quit_sig
    /\ pc_up = "ack" /\ mx["mx_meas_up"] = "up"
    /\ \E ic \in LiveServers : pc_down[ic] = "inner"

(* ------------------------------------------------------------------ *)
(* C29: serv_live[ic] is true only if both the upstream and the         *)
(* downstream socket of server ic were created and connected; no send,  *)
(* recv, setsockopt or shutdown is performed on a socket of a server     *)
(* whose serv_live is false, no downstream thread exists for it, and     *)
(* serv_live never changes once the worker threads have been started     *)
(* ------------------------------------------------------------------ *)
C29_Started ==
    \/ pc_main # "setup"
    \/ pc_up # "off"
    \/ \E ic \in Servers : pc_down[ic] # "off"

C29_Inv ==
    /\ \A ic \in Servers :
         conf.serv_live[ic] => sock_state[ic] \in {"connected", "shutdown"}
    /\ pc_up \in {"send", "ack"} => up.ic \in LiveServers
    /\ \A ic \in Servers :
         ~conf.serv_live[ic] =>
           pc_down[ic] = "off" /\ sock_state[ic] # "shutdown"

C29_Step ==
    /\ conf'.serv_live # conf.serv_live => ~C29_Started
    /\ \A ic \in Servers :
         sock_state'[ic] # sock_state[ic] =>
           IF C29_Started THEN conf.serv_live[ic]
                               /\ sock_state'[ic] = "shutdown"
                          ELSE sock_state[ic] = "unset"

C29_ServLive == []C29_Inv /\ [][C29_Step]_vars

(* one server left non-live with its upstream socket connected, the     *)
(* other one live and served by both threads                            *)
C29_Witness ==
    /\ conf.serv_count = 2
    /\ ~conf.serv_live[0] /\ sock_state[0] = "up_connected"
    /\ conf.serv_live[1]
    /\ pc_up = "ack" /\ up.ic = 1
    /\ pc_down[1] = "inner" /\ pc_down[0] = "off"

(* ------------------------------------------------------------------ *)
(* C30: a failure of address resolution, socket creation or connect for *)
(* the upstream or the downstream endpoint of a server leaves that      *)
(* server non-live and start-up goes on with the next server: the       *)
(* process does not exit, the liveness and the sockets of the other     *)
(* servers are untouched, and every live server keeps its thread_down   *)
(* and its place in each round of upstream sends                        *)
(* ------------------------------------------------------------------ *)
C30_Contact ==
    /\ pc_main = "setup"
    /\ \E ic \in Servers : sock_state[ic] = "unset"
    /\ sock_state' # sock_state

C30_Between(a, b) == {ic \in LiveServers : a < ic /\ ic < b}

C30_Step ==
    /\ C30_Contact =>
         /\ proc' = "running" /\ pc_main' = "setup"
         /\ conf'.serv_live[SetupIc] = (sock_state'[SetupIc] = "connected")
         /\ \A o \in Servers \ {SetupIc} :
              /\ conf'.serv_live[o] = conf.serv_live[o]
              /\ sock_state'[o] = sock_state[o]
    /\ pc_up' = "send" /\ pc_up \notin {"send", "ack"} =>
         up'.ic \in LiveServers /\ C30_Between(-1, up'.ic) = {}
    /\ pc_up = "ack" /\ pc_up' = "send" =>
         /\ up'.ic \in LiveServers /\ up'.ic > up.ic
         /\ C30_Between(up.ic, up'.ic) = {}
    /\ pc_up = "ack" /\ pc_up' = "head" =>
         C30_Between(up.ic, conf.serv_count) = {}

C30_Inv ==
    pc_main # "setup" /\ Running =>
      \A ic \in LiveServers : pc_down[ic] # "off"

C30_ContactFailure == []C30_Inv /\ [][C30_Step]_vars

(* connect failed for the downstream endpoint of the first server; the  *)
(* second one is live, has had its round of upstream sends and is being *)
(* polled by its thread_down                                            *)
C30_Witness ==
    /\ conf.serv_count = 2
    /\ ~conf.serv_live[0] /\ sock_state[0] = "down_open"
    /\ conf.serv_live[1] /\ Running
    /\ hist.n_push = 1 /\ pc_up = "head"
    /\ pc_down[1] = "inner"

(* ------------------------------------------------------------------ *)
(* C31: the lgw_stop of the clean shutdown is serialised with the other *)
(* radio operations by mx_concent: it never runs while another thread   *)
(* (thread_gps, cancelled but not joined) is inside lgw_get_trigcnt or  *)
(* another radio HAL call                                                *)
(* ------------------------------------------------------------------ *)
(* a thread is inside a radio HAL call exactly while it holds mx_concent *)
C31_InHal == mx["mx_concent"] # NoOwner
C31_Step == pc_main = "lgw_stop" /\ pc_main' # "lgw_stop" => ~C31_InHal
C31_StopSerialised == [][C31_Step]_vars

(* ------------------------------------------------------------------ *)
(* C32: no thread holds a counter lock while it waits in a blocking     *)
(* network receive: thread_up does not hold mx_meas_up in its recv for  *)
(* the PUSH_ACK, and thread_down holds no counter lock in its recv      *)
(* ------------------------------------------------------------------ *)
C32_CounterLocks == {"mx_meas_up", "mx_meas_dw", "mx_meas_gps"}
C32_NoLockInRecv ==
    /\ pc_up = "ack" => Held("up") \cap C32_CounterLocks = {}
    /\ \A ic \in Servers :
         pc_down[ic] = "inner" => Held(DownName(ic)) \cap C32_CounterLocks = {}

(* ------------------------------------------------------------------ *)
(* C33: for each PUSH_DATA sent to a live server thread_up makes at     *)
(* most two receive attempts and stops waiting after the first attempt  *)
(* that returns a valid matching PUSH_ACK (up_ack_rcv counted once) or  *)
(* a socket error other than a timeout; a timeout (EAGAIN), a frame     *)
(* with an invalid header and a mismatched token lead to the second     *)
(* attempt.  C33_StopOnTimeout is the statement with the timeout among  *)
(* the results that end the wait.                                        *)
(* ------------------------------------------------------------------ *)
C33_Recv == pc_up = "ack" /\ (pc_up' # "ack" \/ up'.i # up.i)
C33_Again == pc_up' = "ack" /\ up'.i = up.i + 1

C33_StopOnTimeout ==
    [][C33_Recv /\ hist'.ack_rx = "timeout" => pc_up' # "ack"]_vars

C33_Inv == pc_up = "ack" => up.i \in 0..(ACK_ATTEMPTS - 1)
C33_Step ==
    C33_Recv =>
      /\ up.i = ACK_ATTEMPTS - 1 => pc_up' # "ack"
      /\ hist'.ack_rx \in {"ack", "error"} => pc_up' # "ack"
      /\ up.i = 0 /\ hist'.ack_rx \in {"timeout", "invalid", "mismatch"}
           => C33_Again
      /\ meas_up'.up_ack_rcv =
           IF hist'.ack_rx = "ack" THEN Add32(meas_up.up_ack_rcv, 1)
                                   ELSE meas_up.up_ack_rcv
C33_AckWait == []C33_Inv /\ [][C33_Step]_vars

(* the second attempt, entered after the first one timed out *)
C33_Witness == pc_up = "ack" /\ up.i = 1 /\ hist.ack_rx = "timeout"

(* ------------------------------------------------------------------ *)
(* C34: every TxPacket handed to the radio from a PULL_RESP has         *)
(* preamble >= 6 when LoRa and >= 3 when FSK, for every numeric value   *)
(* of "prea" (negative ones and ones above 65535 included), and has     *)
(* preamble 8 (LoRa) or 4 (FSK) when "prea" is absent                   *)
(* ------------------------------------------------------------------ *)
(* the PULL_RESP is parsed and accepted: its txpkt goes to lgw_send as  *)
(* it is (2500-2509)                                                     *)
C34_Sending(ic) == pc_down[ic] = "tx_dw"
C34_PreambleMin ==
    \A ic \in Servers :
      C34_Sending(ic) =>
        LET pkt == dn[ic].txpkt
            t == dn[ic].msg.body.txpk
            lora == pkt.modulation = "MOD_LORA"
        IN  /\ pkt.preamble >= (IF lora THEN 6 ELSE 3)
            /\ ~Has(t, "prea") => pkt.preamble = (IF lora THEN 8 ELSE 4)

(* ------------------------------------------------------------------ *)
(* C35: the system is deadlock-free: with thread_up, the thread_down    *)
(* instances, thread_gps, thread_valid and the statistics loop running  *)
(* over the seven mutexes, no reachable state has a set of threads each *)
(* waiting for a mutex held by another of the set, and every mutex      *)
(* acquired is released on every path (the filter's continue paths and  *)
(* the lgw_send failure path included)                                   *)
(* ------------------------------------------------------------------ *)
C35_Threads == {"main", "up", "gps", "valid"} \cup {DownName(ic) : ic \in Servers}

(* the mutex a thread is about to lock, "none" if it is not at a lock *)
C35_WantsMain ==
    CASE pc_main = "up_snap" -> "mx_meas_up"
      [] pc_main = "dw_snap" -> "mx_meas_dw"
      [] pc_main = "gps_copy" -> "mx_meas_gps"
      [] pc_main = "rep" -> "mx_stat_rep"
      [] pc_main = "trig_lock" -> "mx_concent"
      [] OTHER -> "none"
C35_WantsUp ==
    CASE pc_up = "head" /\ ~exit_sig /\ ~quit_sig -> "mx_concent"
      [] pc_up = "tref" -> "mx_timeref"
      [] pc_up \in {"filter", "send"} -> "mx_meas_up"
      [] pc_up = "rep" -> "mx_stat_rep"
      [] OTHER -> "none"
C35_WantsDown(ic) ==
    CASE pc_down[ic] \in {"pull_cnt", "ack_cnt", "tx_dw"} -> "mx_meas_dw"
      [] pc_down[ic] \in {"resp_tref", "bcn_tref"} -> "mx_timeref"
      [] pc_down[ic] = "bcn_xcorr" -> "mx_xcorr"
      [] pc_down[ic] \in {"tx_conc", "bcn_conc"} -> "mx_concent"
      [] pc_down[ic] = "bcn_poll" /\ dn[ic].i < BeaconPolls
           /\ dn[ic].tx_status_var # "TX_FREE" -> "mx_concent"
      [] OTHER -> "none"
C35_WantsGps ==
    CASE pc_gps = "trig_lock" -> "mx_concent"
      [] pc_gps = "sync" -> "mx_timeref"
      [] pc_gps = "coord" -> "mx_meas_gps"
      [] OTHER -> "none"
C35_WantsValid ==
    CASE pc_valid = "age" -> "mx_timeref"
      [] pc_valid \in {"xcorr_reset", "xcorr_init", "xcorr_track"} -> "mx_xcorr"
      [] OTHER -> "none"
C35_Wants(t) ==
    CASE t = "main" -> C35_WantsMain
      [] t = "up" -> C35_WantsUp
      [] t = "gps" -> C35_WantsGps
      [] t = "valid" -> C35_WantsValid
      [] OTHER -> C35_WantsDown(CHOOSE ic \in Servers : DownName(ic) = t)

C35_Blocked(t) == C35_Wants(t) # "none" /\ mx[C35_Wants(t)] # NoOwner

C35_NoCycle ==
    \A S \in SUBSET C35_Threads :
      S # {} => \E t \in S : ~(C35_Blocked(t) /\ mx[C35_Wants(t)] \in S)

(* what a thread may hold where it is: a mutex is held only from its    *)
(* lock to its unlock                                                    *)
C35_MayHold(t) ==
    CASE t = "main" -> IF pc_main = "trig" THEN {"mx_concent"} ELSE {}
      [] t = "up" -> IF pc_up = "fetch" THEN {"mx_concent"}
                     ELSE IF pc_up = "ack" THEN {"mx_meas_up"} ELSE {}
      [] t = "gps" -> IF pc_gps = "trig" THEN {"mx_concent"} ELSE {}
      [] t = "valid" -> {}
      [] OTHER ->
           LET pc == pc_down[CHOOSE ic \in Servers : DownName(ic) = t]
           IN  CASE pc = "tx_conc" -> {"mx_meas_dw"}
                 [] pc = "tx_send" -> {"mx_meas_dw", "mx_concent"}
                 [] pc \in {"bcn_send", "bcn_status"} -> {"mx_concent"}
                 [] OTHER -> {}

C35_Released ==
    /\ \A t \in C35_Threads : Held(t) = C35_MayHold(t)
    /\ \A m \in Mutexes : mx[m] \in C35_Threads \cup {NoOwner}

C35_DeadlockFree == C35_NoCycle /\ C35_Released

(* a chain of waits: the statistics loop waits for mx_meas_dw, held by  *)
(* a thread_down that waits for mx_concent, held by another thread, and *)
(* a second thread_down waits for mx_meas_dw too                         *)
C35_Witness ==
    /\ pc_main = "dw_snap"
    /\ \E ic \in Servers :
         /\ pc_down[ic] = "tx_conc" /\ mx["mx_meas_dw"] = DownName(ic)
         /\ mx["mx_concent"] \notin {NoOwner, DownName(ic)}
         /\ \E o \in Servers \ {ic} : pc_down[o] \in {"pull_cnt", "tx_dw"}

(* ------------------------------------------------------------------ *)
(* C36: for each arming of beacon_next_pps by thread_gps at most one    *)
(* beacon frame is submitted to the radio, also when several            *)
(* thread_down instances test the flag concurrently                      *)
(* ------------------------------------------------------------------ *)
C36_OneBeaconPerArming == hist.n_beacon <= hist.n_arm

(* ------------------------------------------------------------------ *)
(* C37: whenever a beacon is built for submission, its time field is    *)
(* the UTC second of the RMC sentence that armed it, plus one, under    *)
(* every interleaving of thread_gps (which arms the flag before it      *)
(* reads the trigger counter and updates the time reference, and may    *)
(* leave the reference unchanged) with the thread_down that reads       *)
(* time_reference_gps.utc                                                *)
(* ------------------------------------------------------------------ *)
C37_Built(ic) == pc_down[ic] = "bcn_tref" /\ pc_down'[ic] = "bcn_xcorr"
C37_BeaconTime ==
    [][\A ic \in Servers :
         C37_Built(ic) => dn'[ic].field_time = hist.arm_utc + 1]_vars

(* ------------------------------------------------------------------ *)
(* C38: when the configuration leaves the beacon disabled, no beacon    *)
(* frame is ever submitted to the radio, whatever the GPS state,        *)
(* beacon_period and beacon_offset are                                   *)
(* ------------------------------------------------------------------ *)
C38_NoBeaconWhenDisabled ==
    ~conf.beacon_enabled =>
      /\ hist.n_beacon = 0
      /\ \A ic \in Servers : pc_down[ic] # "bcn_send"

(* ------------------------------------------------------------------ *)
(* C39: every TxPacket built from a PULL_RESP and handed to the radio   *)
(* carries as payload exactly the bytes base64-decoded from "data", and *)
(* its size field equals the number of decoded bytes: no packet whose   *)
(* declared size differs from the decoded length reaches lgw_send or is *)
(* counted in dw_payload_byte                                            *)
(* ------------------------------------------------------------------ *)
(* the PULL_RESP was accepted: the next statements count txpkt.size in  *)
(* meas_dw_payload_byte (2503) and call lgw_send(txpkt) (2508)          *)
C39_Handed(ic) == pc_down[ic] = "tx_dw"
C39_PayloadAsDecoded ==
    \A ic \in Servers :
      C39_Handed(ic) =>
        LET pkt == dn[ic].txpkt
            t == dn[ic].msg.body.txpk
        IN  /\ pkt.payload = b64_to_bin(t.data)
            /\ pkt.size = Len(b64_to_bin(t.data))

(* ------------------------------------------------------------------ *)
(* C40: each status report rendered by the statistics loop is appended  *)
(* to at most one PUSH_DATA payload by thread_up, and a payload carries *)
(* a status fragment only if report_ready was true at the iteration's   *)
(* snapshot; after thread_up has copied a report, report_ready stays    *)
(* false until the statistics loop renders a new one, and a report      *)
(* rendered while the previous one is still unconsumed replaces it,     *)
(* under every interleaving of the unlocked snapshot read with the      *)
(* locked producer and consumer sections                                 *)
(* ------------------------------------------------------------------ *)
(* thread_up appends status_report to the payload (1913-1916) *)
C40_Copy == hist'.rep_sent = hist.rep_sent + 1
(* the statistics loop renders a report (1424-1431) *)
C40_Render == hist'.reports = hist.reports + 1
C40_Step ==
    /\ C40_Copy =>
         /\ up.send_report
         /\ hist.reports > 0 /\ hist.rep_id < hist.reports
         /\ pc_up' = "send" => up'.stat = status_report
         /\ ~report_ready'
    /\ report_ready' /\ ~report_ready => C40_Render
    /\ C40_Render =>
         /\ report_ready'
         /\ status_report' = RenderReport(coord_ok')
C40_Inv ==
    /\ pc_up = "rep" => up.send_report
    /\ hist.rep_sent <= hist.reports
    /\ hist.rep_id <= hist.reports
    /\ report_ready => hist.rep_id < hist.reports
C40_ReportOnce == []C40_Inv /\ [][C40_Step]_vars

(* two reports were rendered, the first was replaced unconsumed and the *)
(* second has been copied into a payload                                 *)
C40_Witness ==
    /\ hist.reports = 2 /\ hist.rep_sent = 1 /\ hist.rep_id = 2
    /\ ~report_ready /\ pc_up = "send"

====
